---- MODULE Spec2Model ----
(***************************************************************************)
(* Model of the retrieval-augmented chat pipeline of                       *)
(* intelligent-document-chat: the query agent, the response agent, the     *)
(* chat orchestrator, the text chunker, the vector store manager,          *)
(* concurrent ingestions on the fallback backend and the HTTP boundary.    *)
(*                                                                         *)
(* Strings are sequences of one-character strings; None is Python's None.  *)
(* Calls to the hosted LLM and to the vector store are external: each      *)
(* either raises (with some message) or returns a value drawn from a small *)
(* set.                                                                    *)
(***************************************************************************)
EXTENDS Integers, Sequences, FiniteSets, TLC

VARIABLES
    pc,             \* position of the process_chat call in flight
    vector_store,   \* ChatOrchestrator.vector_store: "none" or "store"
    user_query,     \* process_chat argument
    top_k,          \* process_chat argument
    rephrased_query,\* local of process_chat
    chunks,         \* local of process_chat
    response,       \* local of process_chat
    result,         \* the dict process_chat returns (None until it returns)
    calls,          \* external calls issued by the call in flight, in order
    llm_failed,     \* which LLM / store calls of this call raised
    rephrase_out,   \* what the rephrasing LLM call of this call did (NoOutcome: not issued)
    fq_text,        \* follow-up parser: raw LLM output under test
    fq_out,         \* follow-up parser: the list returned
    fq_pc,
    ct_text,        \* chunk_text: argument text
    ct_size,        \* chunk_text: argument chunk_size
    ct_overlap,     \* chunk_text: argument overlap
    ct_start,       \* chunk_text: local start
    ct_chunks,      \* chunk_text: local chunks
    ct_slices,      \* chunk_text: the (start, end) pairs sliced so far
    ct_pc,
    st_pc,          \* the store object: "Off", "New" (not constructed), "Ready", "Done" (a call returned)
    use_chroma,     \* VectorStoreManager.use_chroma
    chroma_failed,  \* the managed backend failed to initialize in this construction
    faiss_ready,    \* _initialize_faiss has run: the fallback attributes exist
    collection,     \* the persisted ChromaDB collection
    index,          \* VectorStoreManager.index
    id_map,         \* VectorStoreManager.id_map
    metadata_store, \* VectorStoreManager.metadata_store
    dimension,      \* VectorStoreManager.dimension
    disk_index,     \* the file {collection_name}.index
    disk_meta,      \* the file {collection_name}.metadata
    adds,           \* the add_embeddings calls that returned, in order
    st_ret,         \* the last call on the store and its outcome
    ig_pc,          \* concurrent ingestions: the position of each process_pdf call
    managers,       \* concurrent ingestions: the fallback state of each call's VectorStoreManager
    mutex,          \* concurrent ingestions: the holder of the callers' mutex (Free: none)
    serialized,     \* concurrent ingestions: the callers take the mutex around add_embeddings
    ig_embeddings,  \* concurrent ingestions: the embeddings of each call's chunks
    chat_orchestrator,  \* main.py: the global chat_orchestrator
    main_vector_store,  \* main.py: the global vector_store
    api_pc,         \* HTTP boundary: "Off", "Starting", "Idle", "InChat", "Responded"
    api_request,    \* the request being handled
    api_response,   \* what the handler answered
    api_call,       \* how the handler's call of process_chat or process_pdf ended
    chunk_dirs      \* the chunk directories save_chunks_to_disk wrote, in order

vars == <<pc, vector_store, user_query, top_k, rephrased_query, chunks, response,
          result, calls, llm_failed, rephrase_out, fq_text, fq_out, fq_pc,
          ct_text, ct_size, ct_overlap, ct_start, ct_chunks, ct_slices, ct_pc,
          st_pc, use_chroma, chroma_failed, faiss_ready, collection, index, id_map,
          metadata_store, dimension, disk_index, disk_meta, adds, st_ret,
          ig_pc, managers, mutex, serialized, ig_embeddings,
          chat_orchestrator, main_vector_store, api_pc, api_request, api_response,
          api_call, chunk_dirs>>

chatVars == <<pc, vector_store, user_query, top_k, rephrased_query, chunks,
              response, result, calls, llm_failed, rephrase_out>>
fqVars == <<fq_text, fq_out, fq_pc>>
ctVars == <<ct_text, ct_size, ct_overlap, ct_start, ct_chunks, ct_slices, ct_pc>>
stVars == <<st_pc, use_chroma, chroma_failed, faiss_ready, collection, index, id_map,
            metadata_store, dimension, disk_index, disk_meta, adds, st_ret>>
stObjectVars == <<st_pc, use_chroma, chroma_failed, faiss_ready, collection, index,
                  id_map, metadata_store, dimension, st_ret>>
stUploadVars == <<st_pc, use_chroma, chroma_failed, faiss_ready, index, id_map,
                  metadata_store, dimension, st_ret>>
igVars == <<ig_pc, managers, mutex, serialized, ig_embeddings>>
apiVars == <<chat_orchestrator, main_vector_store, api_pc, api_request, api_response,
             api_call, chunk_dirs>>

None == <<"None">>              \* Python None (no modelled string equals it)
Store == <<"ChromaVectorStore">> \* a configured vector store object

(***************************************************************************)
(* Bounds of the model.                                                    *)
(***************************************************************************)
MaxQueryLen == 3        \* longest user query drawn
MaxLLMLen == 2          \* longest LLM text drawn in the chat pipeline
MaxChunksReturned == 2  \* longest chunk list the store returns
MaxFollowupLen == 7     \* longest raw follow-up output parsed
MaxTextLen == 6         \* longest text chunked
MaxChunkSize == 7       \* largest chunk_size drawn
MaxOverlap == 2         \* largest overlap drawn
MaxIters == 8           \* iterations explored of a chunk_text loop that never ends
MaxLongLen == 24        \* length of the long texts chunked with large chunk sizes
MaxAdds == 2            \* add_embeddings calls on the vector store
MaxIngestions == 3      \* concurrent process_pdf calls
MaxPdfChunks == 2       \* most chunks of an uploaded document
MaxFeedLen == 4         \* longest text with form feeds chunked
MaxUploads == 2         \* uploads that process_pdf chunks and saves

(***************************************************************************)
(* Python string primitives.                                               *)
(***************************************************************************)
\* The characters str.strip() removes and the regex class \s matches
\* (str.isspace): tab, line feed, vertical tab, form feed, carriage return,
\* U+001C..U+001F, space, U+0085, U+00A0 and U+1680.  Python also counts
\* U+2000..U+200A, U+2028, U+2029, U+202F, U+205F and U+3000, which a TLA+
\* string cannot hold.
Whitespace ==
    {" ", "\t", "\n", "\r", "\f", "", "", "", "", "",
     "", " ", " "}

Min(a, b) == IF a < b THEN a ELSE b
Max(a, b) == IF a > b THEN a ELSE b

\* All strings over alphabet A of length at most n.
StringsUpTo(A, n) == UNION {[1..k -> A] : k \in 0..n}

SetMin(S) == CHOOSE x \in S : \A y \in S : x <= y
SetMax(S) == CHOOSE x \in S : \A y \in S : x >= y

\* The positions of s that hold a non-whitespace character.
Inked(s) == {i \in 1..Len(s) : s[i] \notin Whitespace}

LStrip(s) == IF Inked(s) = {} THEN <<>> ELSE SubSeq(s, SetMin(Inked(s)), Len(s))

RStrip(s) == IF Inked(s) = {} THEN <<>> ELSE SubSeq(s, 1, SetMax(Inked(s)))

\* str.strip()
Strip(s) == RStrip(LStrip(s))

\* s[a:b] with Python's treatment of negative and out-of-range indices
\* (0-based, b exclusive).
PySlice(s, a, b) ==
    LET n  == Len(s)
        lo == IF a < 0 THEN Max(a + n, 0) ELSE Min(a, n)
        hi == IF b < 0 THEN Max(b + n, 0) ELSE Min(b, n)
    IN  IF lo >= hi THEN <<>> ELSE SubSeq(s, lo + 1, hi)

\* str.split(sep) for a one-character separator.
RECURSIVE SplitAcc(_, _, _)
SplitAcc(s, sep, cur) ==
    IF s = <<>> THEN <<cur>>
    ELSE IF Head(s) = sep THEN <<cur>> \o SplitAcc(Tail(s), sep, <<>>)
    ELSE SplitAcc(Tail(s), sep, Append(cur, Head(s)))

Split(s, sep) == SplitAcc(s, sep, <<>>)

\* "\n".join(parts)
RECURSIVE JoinLines(_)
JoinLines(parts) ==
    IF parts = <<>> THEN <<>>
    ELSE IF Len(parts) = 1 THEN parts[1]
    ELSE parts[1] \o <<"\n">> \o JoinLines(Tail(parts))

\* [q.strip() for q in lines if q.strip()]
RECURSIVE StripNonBlank(_)
StripNonBlank(lines) ==
    IF lines = <<>> THEN <<>>
    ELSE IF Strip(Head(lines)) # <<>>
         THEN <<Strip(Head(lines))>> \o StripNonBlank(Tail(lines))
         ELSE StripNonBlank(Tail(lines))

\* str(i) for a small non-negative integer.
Digits == <<"0", "1", "2", "3", "4", "5", "6", "7", "8", "9">>
RECURSIVE IntToStr(_)
IntToStr(i) == IF i < 10 THEN <<Digits[i + 1]>>
               ELSE IntToStr(i \div 10) \o <<Digits[(i % 10) + 1]>>

Get(d, key, default) == IF key \in DOMAIN d THEN d[key] ELSE default

(***************************************************************************)
(* External collaborators: the hosted LLM and the vector store's search.   *)
(* An outcome either raised (with a message) or returned a value.          *)
(***************************************************************************)
Raised(msg) == [raised |-> TRUE, msg |-> msg, text |-> <<>>]
Returned(text) == [raised |-> FALSE, msg |-> <<>>, text |-> text]
NoOutcome == Returned(None)

ExcMsgs == {<<"x">>}
\* Queries over a space and a letter, and two that hold a form feed, which
\* text copied from a PDF carries.
FormFeedQueries == {<<"a", "a", "\f">>, <<"\f", "a", "a", "a">>}
Queries == StringsUpTo({" ", "a"}, MaxQueryLen) \cup FormFeedQueries
TopKs == {1, 5}
LLMTexts == StringsUpTo({" ", "b"}, MaxLLMLen)
LLMOutcomes == {Raised(m) : m \in ExcMsgs} \cup {Returned(t) : t \in LLMTexts}
\* What the follow-up LLM call returns inside the pipeline: nothing, blank
\* lines, one question, two, and four lines of which one is blank.
FollowupTexts == {<<>>, <<"\n">>, <<"q">>, <<"q", "\n", "q">>,
                  <<"p", "\n", " ", "\n", "q", "\n", "r", "\n", "s">>}
FollowupOutcomes == {Raised(m) : m \in ExcMsgs} \cup {Returned(t) : t \in FollowupTexts}

\* The dicts a store returns: with content and a source, or with text only.
ChunkDicts == {[content |-> <<"c">>, metadata |-> [source |-> <<"s">>]],
               [text |-> <<"t">>]}
ChunkLists == UNION {[1..k -> ChunkDicts] : k \in 0..MaxChunksReturned}

\* A dict whose metadata is None (NoneMetadata: None where a dict is
\* expected), alone and after a chunk with a source.
NoneMetadata == [none |-> TRUE]
MalformedChunk == [content |-> <<"c">>, metadata |-> NoneMetadata]
MalformedChunkLists ==
    {<<MalformedChunk>>,
     <<[content |-> <<"c">>, metadata |-> [source |-> <<"s">>]], MalformedChunk>>}

\* vector_store.search raises, or returns a list of dicts.
SearchOutcomes == {[raised |-> TRUE, chunks |-> <<>>]}
                  \cup {[raised |-> FALSE, chunks |-> c] :
                           c \in ChunkLists \cup MalformedChunkLists}

(***************************************************************************)
(* QueryAgent                                                              *)
(***************************************************************************)
MinQueryLen == 3

\* Mutant: the length test without the trim.
validate_query_nostrip(query) ==
    IF query = <<>> \/ Len(query) < MinQueryLen THEN FALSE ELSE TRUE

\* Mutant: the length test off by one.
validate_query_le(query) ==
    IF query = <<>> \/ Len(Strip(query)) <= MinQueryLen THEN FALSE ELSE TRUE

validate_query(query) ==
    IF query = <<>> \/ Len(Strip(query)) < MinQueryLen THEN FALSE ELSE TRUE

\* The LLM calls rephrase_query issues: one, on a valid query.
rephrase_calls(query) ==
    IF ~validate_query(query) THEN <<>>
    ELSE <<[op |-> "llm_rephrase", query |-> query]>>

\* Mutant: the stripped LLM text is returned even when empty.
rephrase_query_nofallback(query, llm) ==
    IF ~validate_query(query) THEN query
    ELSE IF llm.raised THEN query
    ELSE Strip(llm.text)

rephrase_query(query, llm) ==
    IF ~validate_query(query) THEN query
    ELSE IF llm.raised THEN query
    ELSE LET rephrased == Strip(llm.text)
         IN  IF rephrased # <<>> THEN rephrased ELSE query

process_query(query, llm) ==
    IF ~validate_query(query) THEN None ELSE rephrase_query(query, llm)

\* The LLM calls process_query issues.
process_query_calls(query) ==
    IF ~validate_query(query) THEN <<>> ELSE rephrase_calls(query)

(***************************************************************************)
(* ResponseAgent                                                           *)
(***************************************************************************)
NoContext == <<"N", "o", " ", "r", "e", "l", "e", "v", "a", "n", "t", " ", "c",
               "o", "n", "t", "e", "x", "t", " ", "f", "o", "u", "n", "d", ".">>
ErrorPrefix == <<"E", "r", "r", "o", "r", " ", "g", "e", "n", "e", "r", "a", "t",
                 "i", "n", "g", " ", "r", "e", "s", "p", "o", "n", "s", "e", ":", " ">>
Unknown == <<"U", "n", "k", "n", "o", "w", "n">>
MaxFollowups == 3

\* f"[Context {i}] (Source: {source})\n{content}\n"
context_part(i, chunk) ==
    LET content  == Get(chunk, "content", Get(chunk, "text", <<>>))
        metadata == Get(chunk, "metadata", <<>>)
        source   == Get(metadata, "source", Unknown)
    IN  <<"[", "C", "o", "n", "t", "e", "x", "t", " ">> \o IntToStr(i)
        \o <<"]", " ", "(", "S", "o", "u", "r", "c", "e", ":", " ">> \o source
        \o <<")", "\n">> \o content \o <<"\n">>

\* format_context on a chunk whose metadata is None: metadata.get raises
\* AttributeError.
AttributeErrorMessage == <<"'NoneType' object has no attribute 'get'">>
format_context_raises(cs) ==
    \E i \in 1..Len(cs) : "metadata" \in DOMAIN cs[i] /\ cs[i].metadata = NoneMetadata

\* Mutant: no special case for an empty chunk list.
format_context_nodefault(cs) ==
    JoinLines([i \in 1..Len(cs) |-> context_part(i, cs[i])])

\* What format_context returns when it does not raise.
format_context(cs) ==
    IF cs = <<>> THEN NoContext
    ELSE JoinLines([i \in 1..Len(cs) |-> context_part(i, cs[i])])

\* Mutant: the exception text is returned without the error prefix.
generate_response_noprefix(query, context_chunks, llm) ==
    IF llm.raised THEN llm.msg ELSE Strip(llm.text)

generate_response(query, context_chunks, llm) ==
    IF llm.raised THEN ErrorPrefix \o llm.msg ELSE Strip(llm.text)

\* The LLM call generate_response issues: the prompt carries the formatted
\* context and the query.
generate_response_calls(query, context_chunks) ==
    <<[op |-> "llm_answer", context |-> format_context(context_chunks),
       query |-> query, chunks |-> context_chunks]>>

\* Mutant: the list is not cut to three entries.
generate_followup_questions_nolimit(query, resp, llm) ==
    IF llm.raised THEN <<>>
    ELSE StripNonBlank(Split(Strip(llm.text), "\n"))

generate_followup_questions(query, resp, llm) ==
    IF llm.raised THEN <<>>
    ELSE LET questions == StripNonBlank(Split(Strip(llm.text), "\n"))
         IN  SubSeq(questions, 1, Min(MaxFollowups, Len(questions)))

generate_followup_calls(query, resp) ==
    <<[op |-> "llm_followup", query |-> query, response |-> resp]>>

(***************************************************************************)
(* ChatOrchestrator                                                        *)
(***************************************************************************)
NotReturned == [returned |-> FALSE]
\* process_chat raised: there is no dict, the caller gets the exception.
Raising(exception) == [returned |-> FALSE, exception |-> exception]
ErrorMessage == <<"Invalid or empty query. Please provide a meaningful question.">>

RejectedResult(q) ==
    [returned |-> TRUE, success |-> FALSE, error |-> ErrorMessage,
     original_query |-> q, response |-> None, chunks |-> <<>>,
     followup_questions |-> <<>>]

CompletedResult(q, rq, resp, cs, fqs) ==
    [returned |-> TRUE, success |-> TRUE, original_query |-> q,
     rephrased_query |-> rq, response |-> resp, chunks |-> cs,
     followup_questions |-> fqs, num_chunks_retrieved |-> Len(cs)]

\* No process_chat call is in flight.
AtRest == pc = "Idle"

InitChat ==
    /\ pc = "Idle"
    /\ vector_store \in {None, Store}
    /\ user_query = <<>>
    /\ top_k = 5
    /\ rephrased_query = None
    /\ chunks = <<>>
    /\ response = None
    /\ result = NotReturned
    /\ calls = <<>>
    /\ llm_failed = {}
    /\ rephrase_out = NoOutcome

\* A bare assignment, with no guard and no lock: another thread may run it
\* while a process_chat call waits in one of its external calls.
set_vector_store(v) ==
    /\ vector_store' = v
    /\ UNCHANGED <<pc, user_query, top_k, rephrased_query, chunks, response,
                   result, calls, llm_failed, rephrase_out>>

\* process_chat is entered with its arguments.
process_chat(q, k) ==
    /\ AtRest
    /\ pc' = "Received"
    /\ user_query' = q
    /\ top_k' = k
    /\ rephrased_query' = None
    /\ chunks' = <<>>
    /\ response' = None
    /\ result' = NotReturned
    /\ calls' = <<>>
    /\ llm_failed' = {}
    /\ rephrase_out' = NoOutcome
    /\ UNCHANGED vector_store

\* The caller has the returned dict, or the exception; the frame of the call
\* is gone.
ReturnToCaller ==
    /\ pc \in {"Completed", "Rejected", "Raised"}
    /\ pc' = "Idle"
    /\ user_query' = <<>>
    /\ top_k' = 5
    /\ rephrased_query' = None
    /\ chunks' = <<>>
    /\ response' = None
    /\ result' = NotReturned
    /\ calls' = <<>>
    /\ llm_failed' = {}
    /\ rephrase_out' = NoOutcome
    /\ UNCHANGED vector_store

\* Step 1: query_agent.process_query, and the early return.
Rephrase ==
    /\ pc = "Received"
    /\ \E llm \in LLMOutcomes :
         LET rq     == process_query(user_query, llm)
             issued == process_query_calls(user_query)
         IN  /\ calls' = calls \o issued
             /\ llm_failed' = IF issued # <<>> /\ llm.raised
                              THEN llm_failed \cup {"rephrase"} ELSE llm_failed
             /\ rephrase_out' = IF issued # <<>> THEN llm ELSE NoOutcome
             /\ rephrased_query' = rq
             /\ IF rq = None \/ rq = <<>>
                THEN /\ pc' = "Rejected"
                     /\ result' = RejectedResult(user_query)
                ELSE /\ pc' = "Rephrased"
                     /\ result' = result
    /\ UNCHANGED <<vector_store, user_query, top_k, chunks, response>>

\* Mutant: the search is not wrapped in try/except, so its exception leaves
\* process_chat.
Retrieve_nocatch ==
    /\ pc = "Rephrased"
    /\ IF vector_store # None
       THEN \E out \in SearchOutcomes :
              /\ calls' = Append(calls, [op |-> "search", query |-> rephrased_query,
                                         top_k |-> top_k])
              /\ chunks' = IF out.raised THEN <<>> ELSE out.chunks
              /\ llm_failed' = IF out.raised THEN llm_failed \cup {"search"}
                               ELSE llm_failed
              /\ pc' = IF out.raised THEN "Raised" ELSE "Retrieved"
       ELSE /\ chunks' = <<>>
            /\ pc' = "Retrieved"
            /\ UNCHANGED <<calls, llm_failed>>
    /\ UNCHANGED <<vector_store, user_query, top_k, rephrased_query, response, result,
                   rephrase_out>>

\* Step 2: vector_store.search under try/except, skipped without a store.
Retrieve ==
    /\ pc = "Rephrased"
    /\ IF vector_store # None
       THEN \E out \in SearchOutcomes :
              /\ calls' = Append(calls, [op |-> "search", query |-> rephrased_query,
                                         top_k |-> top_k])
              /\ chunks' = IF out.raised THEN <<>> ELSE out.chunks
              /\ llm_failed' = IF out.raised THEN llm_failed \cup {"search"}
                               ELSE llm_failed
       ELSE /\ chunks' = <<>>
            /\ UNCHANGED <<calls, llm_failed>>
    /\ pc' = "Retrieved"
    /\ UNCHANGED <<vector_store, user_query, top_k, rephrased_query, response, result,
                   rephrase_out>>

\* Step 3: response_agent.generate_response.  It formats the context before
\* its try block: what format_context raises leaves generate_response and
\* process_chat, which has no try around the call.
Answer ==
    /\ pc = "Retrieved"
    /\ IF format_context_raises(chunks)
       THEN /\ pc' = "Raised"
            /\ result' = Raising(AttributeErrorMessage)
            /\ UNCHANGED <<response, calls, llm_failed>>
       ELSE /\ \E llm \in LLMOutcomes :
                 /\ response' = generate_response(rephrased_query, chunks, llm)
                 /\ calls' = calls \o generate_response_calls(rephrased_query, chunks)
                 /\ llm_failed' = IF llm.raised THEN llm_failed \cup {"answer"}
                                  ELSE llm_failed
            /\ pc' = "Answered"
            /\ UNCHANGED result
    /\ UNCHANGED <<vector_store, user_query, top_k, rephrased_query, chunks,
                   rephrase_out>>

\* Mutant: follow-up generation does not wait for the answer.
Followup_before_answer ==
    /\ pc \in {"Retrieved", "Answered"}
    /\ \E llm \in FollowupOutcomes :
         /\ result' = CompletedResult(user_query, rephrased_query, response, chunks,
                          generate_followup_questions(user_query, response, llm))
         /\ calls' = calls \o generate_followup_calls(user_query, response)
         /\ llm_failed' = IF llm.raised THEN llm_failed \cup {"followup"} ELSE llm_failed
    /\ pc' = "Completed"
    /\ UNCHANGED <<vector_store, user_query, top_k, rephrased_query, chunks, response,
                   rephrase_out>>

\* Mutant: follow-ups are generated from the rephrased query.
Followup_with_rephrased ==
    /\ pc = "Answered"
    /\ \E llm \in FollowupOutcomes :
         /\ result' = CompletedResult(user_query, rephrased_query, response, chunks,
                          generate_followup_questions(rephrased_query, response, llm))
         /\ calls' = calls \o generate_followup_calls(rephrased_query, response)
         /\ llm_failed' = IF llm.raised THEN llm_failed \cup {"followup"} ELSE llm_failed
    /\ pc' = "Completed"
    /\ UNCHANGED <<vector_store, user_query, top_k, rephrased_query, chunks, response,
                   rephrase_out>>

\* Step 4: response_agent.generate_followup_questions, and the return.
Followup ==
    /\ pc = "Answered"
    /\ \E llm \in FollowupOutcomes :
         /\ result' = CompletedResult(user_query, rephrased_query, response, chunks,
                          generate_followup_questions(user_query, response, llm))
         /\ calls' = calls \o generate_followup_calls(user_query, response)
         /\ llm_failed' = IF llm.raised THEN llm_failed \cup {"followup"} ELSE llm_failed
    /\ pc' = "Completed"
    /\ UNCHANGED <<vector_store, user_query, top_k, rephrased_query, chunks, response,
                   rephrase_out>>

ChatIdle ==
    /\ pc = "Idle" /\ vector_store = None /\ user_query = <<>> /\ top_k = 5
    /\ rephrased_query = None /\ chunks = <<>> /\ response = None
    /\ result = NotReturned /\ calls = <<>> /\ llm_failed = {}
    /\ rephrase_out = NoOutcome

(***************************************************************************)
(* Follow-up parsing on its own: generate_followup_questions applied to    *)
(* arbitrary raw LLM output.                                               *)
(***************************************************************************)
RawFollowupTexts == StringsUpTo({"\n", " ", "p", "q"}, MaxFollowupLen)

RestFq == fq_pc = "Idle" /\ fq_text = <<>> /\ fq_out = <<>>

\* The LLM has been asked for follow-ups; fq_text is what it would return.
InitFq == fq_pc = "Called" /\ fq_text \in RawFollowupTexts /\ fq_out = <<>>

FollowupReturns ==
    /\ fq_pc = "Called"
    /\ fq_out' = generate_followup_questions(<<>>, <<>>, Returned(fq_text))
    /\ fq_pc' = "Returned"
    /\ UNCHANGED fq_text

FollowupRaises ==
    /\ fq_pc = "Called"
    /\ \E m \in ExcMsgs :
         fq_out' = generate_followup_questions(<<>>, <<>>, Raised(m))
    /\ fq_pc' = "Raised"
    /\ UNCHANGED fq_text

(***************************************************************************)
(* chunk_text                                                              *)
(***************************************************************************)
Punct == {".", "!", "?"}
Lookahead == 100

\* int(chunk_size * 0.2)
TailWindow(chunk_size) == chunk_size \div 5

\* Index of the last character of the whitespace run that holds s[j].
\* The last position of the whitespace run that position j of s is in.
WsRunEnd(s, j) ==
    SetMin({k \in j..Len(s) : k = Len(s) \/ s[k + 1] \notin Whitespace})

RECURSIVE Ascending(_)
Ascending(S) ==
    IF S = {} THEN <<>> ELSE <<SetMin(S)>> \o Ascending(S \ {SetMin(S)})

\* [m.end() for m in re.finditer(r'[.!?]\s+', s)]: a match starts at every
\* punctuation character that whitespace follows and takes the whole
\* whitespace run, so no two matches overlap.
sentence_endings(s) ==
    Ascending({WsRunEnd(s, p + 1) :
                 p \in {q \in 1..(Len(s) - 1) :
                          s[q] \in Punct /\ s[q + 1] \in Whitespace}})

\* The value of end when the slice is taken in one loop iteration.
chunk_end(text, start, chunk_size) ==
    LET end0 == start + chunk_size
    IN  IF end0 < Len(text)
        THEN LET search_start == end0 - TailWindow(chunk_size)
                 search_text  == PySlice(text, search_start, end0 + Lookahead)
                 ends         == sentence_endings(search_text)
             IN  IF ends # <<>> THEN search_start + ends[Len(ends)] ELSE end0
        ELSE end0

\* Mutant: the next slice starts at the boundary, without overlap.
next_start_nooverlap(text, end, overlap) ==
    IF end < Len(text) THEN end ELSE Len(text)

\* The value of start after one loop iteration.
next_start(text, end, overlap) ==
    IF end < Len(text) THEN end - overlap ELSE Len(text)

\* Mutant: the trimmed slice is appended even when empty.
emit_chunk_noskip(cs, text, start, end) ==
    Append(cs, Strip(PySlice(text, start, end)))

\* chunks after one loop iteration.
emit_chunk(cs, text, start, end) ==
    LET chunk == Strip(PySlice(text, start, end))
    IN  IF chunk # <<>> THEN Append(cs, chunk) ELSE cs

Texts == StringsUpTo({" ", ".", "a"}, MaxTextLen)

\* chunk_text's defaults, which upload_document also passes.
DefaultChunkSize == 1000
DefaultOverlap == 200

\* A text of n characters, all "a", but for a sentence ending ". " at each
\* (0-based) position of P.
SentenceText(n, P) ==
    [i \in 1..n |-> IF (i - 1) \in P THEN "."
                    ELSE IF (i - 2) \in P THEN " " ELSE "a"]

SubsetsUpTo2(S) == {P \in SUBSET S : Cardinality(P) <= 2}

\* Short texts with every small chunk_size and overlap.
SmallInputs ==
    {<<t, cs, ov>> : t \in Texts, cs \in 1..MaxChunkSize, ov \in 0..MaxOverlap}

\* Texts longer than the chunk, with chunk sizes whose last 20% holds three
\* or more characters, and overlaps up to chunk_size - 1.
LongTexts == {SentenceText(MaxLongLen, P) : P \in SubsetsUpTo2(9..(MaxLongLen - 2))}
LargeInputs ==
    {<<t, cs, ov>> : t \in LongTexts, cs \in {15, 20}, ov \in {0, 5, 14, 19}}

\* The 2,500-character upload chunked with the defaults.
ScenarioTexts ==
    {SentenceText(2500, P) :
        P \in SubsetsUpTo2({700, 800, 998, 1098, 1500, 1650, 1900, 2300})}
    \cup {[i \in 1..2500 |-> " "],
          [i \in 1..2500 |-> IF i <= 1700 THEN " " ELSE "a"]}
ScenarioInputs == {<<t, DefaultChunkSize, DefaultOverlap>> : t \in ScenarioTexts}

\* Short texts whose whitespace is the form feed that page breaks leave in
\* text extracted from a PDF.
FormFeedInputs ==
    {<<t, cs, ov>> : t \in StringsUpTo({"\f", ".", "a"}, MaxFeedLen),
                     cs \in 1..2, ov \in 0..1}

ChunkInputs == SmallInputs \cup LargeInputs \cup ScenarioInputs \cup FormFeedInputs

RestCt ==
    /\ ct_pc = "Idle" /\ ct_text = <<>> /\ ct_size = 1 /\ ct_overlap = 0
    /\ ct_start = 0 /\ ct_chunks = <<>> /\ ct_slices = <<>>

\* chunk_text has been called with (text, chunk_size, overlap).
InitCt ==
    /\ ct_pc = "Called"
    /\ \E inp \in ChunkInputs :
         /\ ct_text = inp[1]
         /\ ct_size = inp[2]
         /\ ct_overlap = inp[3]
    /\ ct_size > ct_overlap
    /\ ct_start = 0 /\ ct_chunks = <<>> /\ ct_slices = <<>>

\* chunk_text is entered: the empty-text early return, or the loop set-up.
chunk_text_enter ==
    /\ ct_pc = "Called"
    /\ ct_pc' = IF ct_text = <<>> THEN "Done" ELSE "Loop"
    /\ ct_start' = 0
    /\ ct_chunks' = <<>>
    /\ UNCHANGED <<ct_text, ct_size, ct_overlap, ct_slices>>

\* The loop is at a start it has sliced from before: what an iteration does
\* depends on start alone, so the loop never ends.
Recurs == \E i \in 1..Len(ct_slices) : ct_slices[i][1] = ct_start

\* One iteration of the while loop.  Of a loop that never ends the first
\* MaxIters iterations are explored, and those up to the first recurrence;
\* a loop that ends is followed to its end.
chunk_text_iterate ==
    /\ ct_pc = "Loop"
    /\ ct_start < Len(ct_text)
    /\ Len(ct_slices) < MaxIters \/ ~Recurs
    /\ LET end == chunk_end(ct_text, ct_start, ct_size)
       IN  /\ ct_chunks' = emit_chunk(ct_chunks, ct_text, ct_start, end)
           /\ ct_slices' = Append(ct_slices, <<ct_start, end>>)
           /\ ct_start' = next_start(ct_text, end, ct_overlap)
    /\ UNCHANGED <<ct_pc, ct_text, ct_size, ct_overlap>>

\* The loop condition fails: return chunks.
chunk_text_return ==
    /\ ct_pc = "Loop"
    /\ ~(ct_start < Len(ct_text))
    /\ ct_pc' = "Done"
    /\ UNCHANGED <<ct_text, ct_size, ct_overlap, ct_start, ct_chunks, ct_slices>>

(***************************************************************************)
(* VectorStoreManager: the managed backend (a ChromaDB collection) and the *)
(* fallback backend (a flat FAISS index with an id map and a record store, *)
(* persisted in two files).  An embedding is a tuple of integers, a record *)
(* is an id, a document and a metadata dict.  add_embeddings takes         *)
(* parallel lists, one entry per record, as generate_and_store_embeddings  *)
(* passes them.                                                            *)
(***************************************************************************)
\* Optional[...] arguments: a value or None.
Some(x) == [some |-> TRUE, value |-> x]
Nothing == [some |-> FALSE]

\* self.dimension = None
NoDimension == -1

\* self.index: None, or a faiss.IndexFlatL2 holding its vectors in slot
\* order (slot i, 0-based, is xb[i + 1]).
NoIndex == [built |-> FALSE, d |-> NoDimension, xb |-> <<>>]
IndexFlatL2(d) == [built |-> TRUE, d |-> d, xb |-> <<>>]
ntotal(ix) == Len(ix.xb)

\* Mutant: the index takes only the first vector of a batch.
index_add_first(ix, embeddings) == [ix EXCEPT !.xb = Append(@, embeddings[1])]

\* index.add(embeddings_array)
index_add(ix, embeddings) == [ix EXCEPT !.xb = @ \o embeddings]

\* The persisted files of the fallback backend.
NoFile == [exists |-> FALSE]
IndexFile(ix) == [exists |-> TRUE, index |-> ix]
MetadataFile(im, ms, dim) ==
    [exists |-> TRUE, id_map |-> im, metadata_store |-> ms, dimension |-> dim]

\* Lines the store prints.
ChromaInitialized == "ChromaDB initialized with collection"
ChromaFailed == "Failed to initialize ChromaDB"
FallingBack == "Falling back to FAISS..."
FaissLoaded == "FAISS index loaded"
FaissNotFound == "No existing FAISS index found. Will create on first add."
DeleteWarning == "Warning: FAISS doesn't support efficient deletion. Consider using ChromaDB for better delete support."
WarningLines == {DeleteWarning}
Warned(printed) == \E i \in 1..Len(printed) : printed[i] \in WarningLines

\* What the last call on the store was given and what it did.  Every field
\* is always present; a call fills in its own.  count_before is count()
\* before an add, readd whether the store held every id of the add already.
NoCall ==
    [op |-> "none", backend |-> "none", raised |-> FALSE, printed |-> <<>>,
     count_before |-> 0, readd |-> FALSE,
     embeddings |-> <<>>, documents |-> <<>>, metadatas |-> <<>>, ids |-> Nothing,
     query_embeddings |-> <<>>, n_results |-> 0, where |-> Nothing,
     get_ids |-> <<>>, document_id |-> <<>>,
     added |-> <<>>,
     found |-> [ids |-> <<>>, documents |-> <<>>, metadatas |-> <<>>, distances |-> <<>>],
     got |-> [ids |-> <<>>, documents |-> <<>>, metadatas |-> <<>>],
     counted |-> 0]

\* ids generated when add_embeddings is given none.
generated_ids(metadatas) ==
    [i \in 1..Len(metadatas) |->
        Get(metadatas[i], "document_id", <<"d", "o", "c">>) \o <<"_">>
        \o IntToStr(Get(metadatas[i], "chunk_index", i - 1))]

\* len(list(zip(documents, metadatas, ids)))
ZipLen(documents, metadatas, ids) ==
    Min(Len(documents), Min(Len(metadatas), Len(ids)))

\* The records a call writes, in the order of the zip.
ZipRecords(documents, metadatas, ids) ==
    [i \in 1..ZipLen(documents, metadatas, ids) |->
        [id |-> ids[i], document |-> documents[i], metadata |-> metadatas[i]]]

\* Mutant: an id already mapped keeps its first slot.
add_to_faiss_id_map_first(im, start_idx, documents, metadatas, ids) ==
    LET n == ZipLen(documents, metadatas, ids)
        written == {ids[i] : i \in 1..n}
    IN  [k \in (DOMAIN im) \cup written |->
            IF k \in DOMAIN im THEN im[k]
            ELSE start_idx + SetMin({i \in 1..n : ids[i] = k}) - 1]

\* id_map after the loop of _add_to_faiss: each id maps to the last slot
\* written for it.
add_to_faiss_id_map(im, start_idx, documents, metadatas, ids) ==
    LET n == ZipLen(documents, metadatas, ids)
        written == {ids[i] : i \in 1..n}
    IN  [k \in (DOMAIN im) \cup written |->
            IF k \in written
            THEN start_idx + SetMax({i \in 1..n : ids[i] = k}) - 1
            ELSE im[k]]

\* Mutant: the records are written from slot 0, not from start_idx.
add_to_faiss_metadata_store_from0(ms, start_idx, documents, metadatas, ids) ==
    LET n == ZipLen(documents, metadatas, ids)
        recs == ZipRecords(documents, metadatas, ids)
    IN  [s \in (DOMAIN ms) \cup (0..(n - 1)) |->
            IF s < n THEN recs[s + 1] ELSE ms[s]]

\* metadata_store after the loop of _add_to_faiss.
add_to_faiss_metadata_store(ms, start_idx, documents, metadatas, ids) ==
    LET n == ZipLen(documents, metadatas, ids)
        recs == ZipRecords(documents, metadatas, ids)
    IN  [s \in (DOMAIN ms) \cup (start_idx..(start_idx + n - 1)) |->
            IF s >= start_idx /\ s < start_idx + n
            THEN recs[s - start_idx + 1] ELSE ms[s]]

\* np.array(embeddings) is a matrix, and index.add accepts it, only if there
\* is a row and every row has the dimension of the index (of the first row,
\* on the first add).
add_to_faiss_raises(ix, embeddings) ==
    LET d == IF ix.built THEN ix.d ELSE Len(embeddings[1])
    IN  \/ embeddings = <<>>
        \/ \E i \in 1..Len(embeddings) : Len(embeddings[i]) # d

\* Squared Euclidean distance, the metric of IndexFlatL2.
RECURSIVE SqDistFrom(_, _, _)
SqDistFrom(u, v, i) ==
    IF i > Len(u) THEN 0
    ELSE (u[i] - v[i]) * (u[i] - v[i]) + SqDistFrom(u, v, i + 1)
SqDist(u, v) == SqDistFrom(u, v, 1)

\* The ways of ranking the k nearest of the slots S to q, nearest first
\* (the order of equally distant slots is the library's choice).
RECURSIVE Ranked(_, _, _, _)
Ranked(xb, q, S, k) ==
    IF k = 0 \/ S = {} THEN {<<>>}
    ELSE LET nearest == {c \in S : \A o \in S :
                            SqDist(xb[c + 1], q) <= SqDist(xb[o + 1], q)}
         IN  UNION {{<<c>> \o r : r \in Ranked(xb, q, S \ {c}, k - 1)} :
                      c \in nearest}

\* index.search(query_array, k): for each query vector the labels of the k
\* nearest slots, padded with -1 when the index holds fewer than k vectors.
index_search_one(ix, q, k) ==
    {r \o [i \in 1..(k - Len(r)) |-> -1] :
        r \in Ranked(ix.xb, q, 0..(ntotal(ix) - 1), k)}

RECURSIVE index_search(_, _, _)
index_search(ix, qs, k) ==
    IF qs = <<>> THEN {<<>>}
    ELSE {<<r>> \o rest : r \in index_search_one(ix, Head(qs), k),
                          rest \in index_search(ix, Tail(qs), k)}

query_faiss_raises(ix, qs) ==
    ix.built /\ ntotal(ix) > 0 /\ \E i \in 1..Len(qs) : Len(qs[i]) # ix.d

\* The labels of one query that have a record in metadata_store.
Hits(ms, labels) == SelectSeq(labels, LAMBDA c : c \in DOMAIN ms)

\* _query_faiss, given the labels index.search returned.
query_faiss(ix, ms, qs, labels) ==
    IF ~ix.built \/ ntotal(ix) = 0
    THEN [ids |-> <<<<>>>>, documents |-> <<<<>>>>, metadatas |-> <<<<>>>>,
          distances |-> <<<<>>>>]
    ELSE [ids |-> [i \in 1..Len(qs) |->
                     [j \in 1..Len(Hits(ms, labels[i])) |-> ms[Hits(ms, labels[i])[j]].id]],
          documents |-> [i \in 1..Len(qs) |->
                     [j \in 1..Len(Hits(ms, labels[i])) |-> ms[Hits(ms, labels[i])[j]].document]],
          metadatas |-> [i \in 1..Len(qs) |->
                     [j \in 1..Len(Hits(ms, labels[i])) |-> ms[Hits(ms, labels[i])[j]].metadata]],
          distances |-> [i \in 1..Len(qs) |->
                     [j \in 1..Len(Hits(ms, labels[i])) |->
                        SqDist(ix.xb[Hits(ms, labels[i])[j] + 1], qs[i])]]]

\* The requested ids that get_by_ids finds on the fallback backend.
FoundIds(im, ms, ids) ==
    SelectSeq(ids, LAMBDA k : k \in DOMAIN im /\ im[k] \in DOMAIN ms)

\* get_by_ids on the fallback backend.
get_by_ids_faiss(im, ms, ids) ==
    LET hit == FoundIds(im, ms, ids)
    IN  [ids |-> [j \in 1..Len(hit) |-> ms[im[hit[j]]].id],
         documents |-> [j \in 1..Len(hit) |-> ms[im[hit[j]]].document],
         metadatas |-> [j \in 1..Len(hit) |-> ms[im[hit[j]]].metadata]]

\* Mutant: deleting on the fallback backend forgets the document's ids.
delete_faiss_id_map_forget(im, ms, document_id) ==
    [k \in {j \in DOMAIN im :
              Get(ms[im[j]].metadata, "document_id", None) # document_id} |-> im[k]]

\* id_map after delete_by_document_id on the fallback backend.
delete_faiss_id_map(im, ms, document_id) == im

\* count() on the fallback backend.
count_faiss(ix) == IF ix.built THEN ntotal(ix) ELSE 0

\* Mutant: a failed initialization leaves use_chroma set.
initialize_chroma_keeps(ok) == TRUE

\* use_chroma after _initialize_chroma, which either succeeded or failed.
initialize_chroma(ok) == ok

(***************************************************************************)
(* The ChromaDB collection, by its contract: a map from id to record and   *)
(* the dimension its first embedding fixed.  add() rejects empty lists,    *)
(* lists of unequal length, an id given twice in one call and an embedding *)
(* of another dimension; for an id the collection already holds it either  *)
(* raises or leaves the stored record as it is, depending on the release   *)
(* (upsert(), not add(), is the call that overwrites).                     *)
(***************************************************************************)
EmptyCollection == [dimension |-> NoDimension, records |-> <<>>]

Stored(coll) == DOMAIN coll.records

WrongDimension(coll, vectors) ==
    \E i \in 1..Len(vectors) :
        Len(vectors[i]) # (IF coll.dimension = NoDimension THEN Len(vectors[1])
                           ELSE coll.dimension)

collection_add_rejects(coll, embeddings, documents, metadatas, ids) ==
    \/ ids = <<>>
    \/ Len(embeddings) # Len(ids) \/ Len(documents) # Len(ids)
    \/ Len(metadatas) # Len(ids)
    \/ \E i, j \in 1..Len(ids) : i # j /\ ids[i] = ids[j]
    \/ WrongDimension(coll, embeddings)

\* The collection after add() stored the records whose id is new.
collection_insert_new(coll, embeddings, documents, metadatas, ids) ==
    LET fresh == {i \in 1..Len(ids) : ids[i] \notin Stored(coll)}
    IN  [dimension |-> Len(embeddings[1]),
         records |->
            [k \in Stored(coll) \cup {ids[i] : i \in fresh} |->
                IF k \in Stored(coll) THEN coll.records[k]
                ELSE LET i == CHOOSE j \in fresh : ids[j] = k
                     IN  [embedding |-> embeddings[i], document |-> documents[i],
                          metadata |-> metadatas[i]]]]

\* What self.collection.add(...) can do: raise, or return with a collection.
collection_add(coll, embeddings, documents, metadatas, ids) ==
    IF collection_add_rejects(coll, embeddings, documents, metadatas, ids)
    THEN {[raised |-> TRUE, collection |-> coll]}
    ELSE IF \E i \in 1..Len(ids) : ids[i] \in Stored(coll)
    THEN {[raised |-> TRUE, collection |-> coll],
          [raised |-> FALSE,
           collection |-> collection_insert_new(coll, embeddings, documents, metadatas, ids)]}
    ELSE {[raised |-> FALSE,
           collection |-> collection_insert_new(coll, embeddings, documents, metadatas, ids)]}

\* The ids the where filter keeps (an equality on document_id, or no filter).
Matching(coll, where) ==
    {k \in Stored(coll) :
        where.some =>
            Get(coll.records[k].metadata, "document_id", None) = where.value.document_id}

\* The metric of the collection, which is created with hnsw:space = cosine:
\* the distance of u to q is 1 - (u.q) / (|u| |q|), a vector of norm 0 being
\* taken as it is (its distance to anything is 1).
RECURSIVE DotFrom(_, _, _)
DotFrom(u, v, i) ==
    IF i > Len(u) THEN 0 ELSE u[i] * v[i] + DotFrom(u, v, i + 1)
Dot(u, v) == DotFrom(u, v, 1)

\* |u|^2, and 1 for the zero vector, which normalization leaves alone.
Norm2(u) == IF Dot(u, u) = 0 THEN 1 ELSE Dot(u, u)

\* x |x|, which orders as x does.
SignedSquare(x) == IF x >= 0 THEN x * x ELSE -(x * x)

\* The cosine distance of u to q is at most that of o to q.
CosineLeq(u, o, q) ==
    SignedSquare(Dot(u, q)) * Norm2(o) >= SignedSquare(Dot(o, q)) * Norm2(u)

RECURSIVE Gcd(_, _)
Gcd(a, b) == IF b = 0 THEN a ELSE Gcd(b, a % b)

\* The cosine distance of u to q, exactly: 1 - sign * sqrt(num / den), with
\* num / den the squared cosine in lowest terms.
CosineDistance(u, q) ==
    LET dot == Dot(u, q)
        num == dot * dot
        den == Norm2(u) * Norm2(q)
        g   == Gcd(den, num)
    IN  [sign |-> IF dot > 0 THEN 1 ELSE IF dot < 0 THEN -1 ELSE 0,
         num |-> num \div g, den |-> den \div g]

\* The ways of ranking the k nearest of the records S to q, nearest first.
RECURSIVE RankedIds(_, _, _, _)
RankedIds(coll, q, S, k) ==
    IF k = 0 \/ S = {} THEN {<<>>}
    ELSE LET nearest == {c \in S : \A o \in S :
                            CosineLeq(coll.records[c].embedding,
                                      coll.records[o].embedding, q)}
         IN  UNION {{<<c>> \o r : r \in RankedIds(coll, q, S \ {c}, k - 1)} :
                      c \in nearest}

\* self.collection.query(...): per query vector the n_results nearest of the
\* records the filter keeps, with their cosine distances.
collection_query_raises(coll, qs) ==
    coll.dimension # NoDimension /\ WrongDimension(coll, qs)

RECURSIVE collection_query(_, _, _, _)
collection_query(coll, qs, n_results, where) ==
    IF qs = <<>> THEN {<<>>}
    ELSE {<<r>> \o rest :
            r \in RankedIds(coll, Head(qs), Matching(coll, where), n_results),
            rest \in collection_query(coll, Tail(qs), n_results, where)}

collection_found(coll, qs, L) ==
    [ids |-> L,
     documents |-> [i \in 1..Len(qs) |->
                      [j \in 1..Len(L[i]) |-> coll.records[L[i][j]].document]],
     metadatas |-> [i \in 1..Len(qs) |->
                      [j \in 1..Len(L[i]) |-> coll.records[L[i][j]].metadata]],
     distances |-> [i \in 1..Len(qs) |->
                      [j \in 1..Len(L[i]) |->
                         CosineDistance(coll.records[L[i][j]].embedding, qs[i])]]]

\* self.collection.get(ids=ids)
collection_get(coll, ids) ==
    LET hit == SelectSeq(ids, LAMBDA k : k \in Stored(coll))
    IN  [ids |-> hit,
         documents |-> [j \in 1..Len(hit) |-> coll.records[hit[j]].document],
         metadatas |-> [j \in 1..Len(hit) |-> coll.records[hit[j]].metadata]]

\* self.collection.count()
collection_count(coll) == Cardinality(Stored(coll))

\* self.collection.delete(where={"document_id": document_id})
collection_delete(coll, document_id) ==
    [coll EXCEPT !.records =
        [k \in {j \in Stored(coll) :
                  Get(coll.records[j].metadata, "document_id", None) # document_id} |->
            coll.records[k]]]

(***************************************************************************)
(* The calls drawn.                                                        *)
(***************************************************************************)
Docs == {<<"d">>, <<"e">>}
Versions == {<<"x">>, <<"y">>}

\* One version of (a prefix of) a document: chunk i - 1 of the document,
\* under its generated id.
Batch(doc, ver, embeddings) ==
    [embeddings |-> embeddings,
     documents |-> [i \in 1..Len(embeddings) |-> ver],
     metadatas |-> [i \in 1..Len(embeddings) |->
                      [document_id |-> doc, chunk_index |-> i - 1]],
     ids |-> Nothing]

\* Two versions of document d, in one or two chunks; document e, in one
\* dimension and in two; a record without document_id, with and without
\* an id of its own.
AddInputs ==
    {Batch(<<"d">>, ver, e) :
        ver \in Versions, e \in {<<<<0>>>>, <<<<0>>, <<4>>>>}}
    \cup {Batch(<<"e">>, <<"x">>, e) : e \in {<<<<4>>>>, <<<<1, 1>>>>}}
    \cup {[embeddings |-> <<<<0>>>>, documents |-> <<<<"x">>>>,
           metadatas |-> <<[source |-> <<"s">>]>>, ids |-> i] :
            i \in {Nothing, Some(<<<<"k">>>>)}}

\* (query_embeddings, n_results, where)
QueryInputs ==
    {<<<<<<1>>>>, 1, Nothing>>,
     <<<<<<3>>>>, 3, Nothing>>,
     <<<<<<1>>, <<3>>>>, 1, Nothing>>,
     <<<<<<1>>, <<3>>>>, 3, Some([document_id |-> <<"d">>])>>,
     <<<<<<3>>>>, 1, Some([document_id |-> <<"d">>])>>,
     <<<<<<1, 1>>>>, 1, Nothing>>}
GetIds ==
    {<<>>, <<<<"d", "_", "0">>>>, <<<<"e", "_", "0">>, <<"d", "_", "0">>>>,
     <<<<"d", "_", "1">>, <<"z">>, <<"d", "_", "1">>>>, <<<<"k">>, <<"d", "o", "c", "_", "0">>>>}

(***************************************************************************)
(* The store's life: construction, calls, and the end of the process (the  *)
(* collection and the files stay on disk).                                 *)
(***************************************************************************)
RestSt ==
    /\ st_pc = "Off"
    /\ use_chroma = FALSE /\ chroma_failed = FALSE /\ faiss_ready = FALSE
    /\ collection = EmptyCollection
    /\ index = NoIndex /\ id_map = <<>> /\ metadata_store = <<>>
    /\ dimension = NoDimension
    /\ disk_index = NoFile /\ disk_meta = NoFile
    /\ adds = <<>>
    /\ st_ret = NoCall

InitSt ==
    /\ st_pc = "New"
    /\ use_chroma = FALSE /\ chroma_failed = FALSE /\ faiss_ready = FALSE
    /\ collection = EmptyCollection
    /\ index = NoIndex /\ id_map = <<>> /\ metadata_store = <<>>
    /\ dimension = NoDimension
    /\ disk_index = NoFile /\ disk_meta = NoFile
    /\ adds = <<>>
    /\ st_ret = NoCall

\* The fallback backend's state when nothing has been loaded.
NoFaissState ==
    [index |-> NoIndex, id_map |-> <<>>, metadata_store |-> <<>>,
     dimension |-> NoDimension, loaded |-> FALSE]

\* Mutant: the dimension is not read back from the metadata file.
initialize_faiss_nodimension(index_file, metadata_file) ==
    IF index_file.exists /\ metadata_file.exists
    THEN [index |-> index_file.index,
          id_map |-> metadata_file.id_map,
          metadata_store |-> metadata_file.metadata_store,
          dimension |-> NoDimension,
          loaded |-> TRUE]
    ELSE NoFaissState

\* _initialize_faiss: the index and the three fields of the metadata file
\* are read back when both files exist, and nothing is read otherwise.
initialize_faiss(index_file, metadata_file) ==
    IF index_file.exists /\ metadata_file.exists
    THEN [index |-> index_file.index,
          id_map |-> metadata_file.id_map,
          metadata_store |-> metadata_file.metadata_store,
          dimension |-> metadata_file.dimension,
          loaded |-> TRUE]
    ELSE NoFaissState

\* VectorStoreManager(persist_directory, collection_name, use_chroma), with
\* the managed backend's initialization succeeding (ok) or failing.
Construct(arg_use_chroma, ok) ==
    LET fallback == ~arg_use_chroma \/ ~ok
        fresh == initialize_faiss(disk_index, disk_meta)
        load == fresh.loaded
    IN
    /\ st_pc = "New"
    /\ st_pc' = "Done"
    /\ use_chroma' = IF arg_use_chroma THEN initialize_chroma(ok) ELSE FALSE
    /\ chroma_failed' = (arg_use_chroma /\ ~ok)
    /\ faiss_ready' = fallback
    /\ index' = IF fallback THEN fresh.index ELSE NoIndex
    /\ id_map' = IF fallback THEN fresh.id_map ELSE <<>>
    /\ metadata_store' = IF fallback THEN fresh.metadata_store ELSE <<>>
    /\ dimension' = IF fallback THEN fresh.dimension ELSE NoDimension
    /\ st_ret' = [NoCall EXCEPT
                    !.op = "init",
                    !.backend = IF fallback THEN "faiss" ELSE "chroma",
                    !.printed =
                        (IF ~arg_use_chroma THEN <<>>
                         ELSE IF ok THEN <<ChromaInitialized>>
                         ELSE <<ChromaFailed, FallingBack>>)
                        \o (IF ~fallback THEN <<>>
                            ELSE IF load THEN <<FaissLoaded>> ELSE <<FaissNotFound>>)]
    /\ UNCHANGED <<collection, disk_index, disk_meta, adds>>

\* The process ends: the object is gone, what is on disk stays.
Exit ==
    /\ st_pc = "Ready"
    /\ st_pc' = "New"
    /\ use_chroma' = FALSE /\ chroma_failed' = FALSE /\ faiss_ready' = FALSE
    /\ index' = NoIndex /\ id_map' = <<>> /\ metadata_store' = <<>>
    /\ dimension' = NoDimension
    /\ st_ret' = NoCall
    /\ UNCHANGED <<collection, disk_index, disk_meta, adds>>

\* The caller takes the outcome of the call; the store is ready for the next.
Resume ==
    /\ st_pc = "Done"
    /\ st_pc' = "Ready"
    /\ st_ret' = NoCall
    /\ UNCHANGED <<use_chroma, chroma_failed, faiss_ready, collection, index, id_map,
                   metadata_store, dimension, disk_index, disk_meta, adds>>

add_embeddings(inp) ==
    LET ids == IF inp.ids.some THEN inp.ids.value ELSE generated_ids(inp.metadatas)
        call == [NoCall EXCEPT !.op = "add",
                               !.embeddings = inp.embeddings,
                               !.documents = inp.documents,
                               !.metadatas = inp.metadatas,
                               !.ids = inp.ids]
        log(backend) == [backend |-> backend, n |-> Len(inp.embeddings),
                         records |-> ZipRecords(inp.documents, inp.metadatas, ids)]
    IN
    /\ st_pc = "Ready"
    /\ Len(adds) < MaxAdds
    /\ IF use_chroma
       THEN /\ \E out \in collection_add(collection, inp.embeddings, inp.documents,
                                         inp.metadatas, ids) :
                 /\ collection' = out.collection
                 /\ adds' = IF out.raised THEN adds ELSE Append(adds, log("chroma"))
                 /\ st_ret' = [call EXCEPT !.backend = "chroma",
                                           !.raised = out.raised,
                                           !.count_before = collection_count(collection),
                                           !.readd = \A i \in 1..Len(ids) :
                                                        ids[i] \in Stored(collection),
                                           !.added = IF out.raised THEN <<>> ELSE ids]
            /\ UNCHANGED <<index, id_map, metadata_store, dimension, disk_index, disk_meta>>
       ELSE IF ~faiss_ready \/ add_to_faiss_raises(index, inp.embeddings)
       THEN /\ st_ret' = [call EXCEPT !.backend = "faiss", !.raised = TRUE,
                                      !.count_before = count_faiss(index)]
            /\ UNCHANGED <<collection, index, id_map, metadata_store, dimension,
                           disk_index, disk_meta, adds>>
       ELSE LET ix0 == IF index.built THEN index
                       ELSE IndexFlatL2(Len(inp.embeddings[1]))
                start_idx == ntotal(ix0)
                ix1 == index_add(ix0, inp.embeddings)
                im1 == add_to_faiss_id_map(id_map, start_idx, inp.documents,
                                           inp.metadatas, ids)
                ms1 == add_to_faiss_metadata_store(metadata_store, start_idx,
                                                   inp.documents, inp.metadatas, ids)
            IN  /\ index' = ix1
                /\ dimension' = IF index.built THEN dimension ELSE ix0.d
                /\ id_map' = im1
                /\ metadata_store' = ms1
                /\ disk_index' = IndexFile(ix1)
                /\ disk_meta' = MetadataFile(im1, ms1, IF index.built THEN dimension ELSE ix0.d)
                /\ adds' = Append(adds, log("faiss"))
                /\ st_ret' = [call EXCEPT !.backend = "faiss",
                                          !.count_before = count_faiss(index),
                                          !.readd = \A i \in 1..Len(ids) :
                                                       ids[i] \in DOMAIN id_map,
                                          !.added = ids]
                /\ UNCHANGED collection
    /\ st_pc' = "Done"
    /\ UNCHANGED <<use_chroma, chroma_failed, faiss_ready>>

query(qs, n_results, where) ==
    LET call == [NoCall EXCEPT !.op = "query", !.query_embeddings = qs,
                               !.n_results = n_results, !.where = where]
    IN
    /\ st_pc = "Ready"
    /\ IF use_chroma
       THEN IF collection_query_raises(collection, qs)
            THEN st_ret' = [call EXCEPT !.backend = "chroma", !.raised = TRUE]
            ELSE \E L \in collection_query(collection, qs, n_results, where) :
                    st_ret' = [call EXCEPT !.backend = "chroma",
                                           !.found = collection_found(collection, qs, L)]
       ELSE IF ~faiss_ready \/ query_faiss_raises(index, qs)
            THEN st_ret' = [call EXCEPT !.backend = "faiss", !.raised = TRUE]
            ELSE \E labels \in index_search(index, qs, n_results) :
                    st_ret' = [call EXCEPT !.backend = "faiss",
                                           !.found = query_faiss(index, metadata_store,
                                                                 qs, labels)]
    /\ st_pc' = "Done"
    /\ UNCHANGED <<use_chroma, chroma_failed, faiss_ready, collection, index,
                   id_map, metadata_store, dimension, disk_index, disk_meta, adds>>

get_by_ids(ids) ==
    LET call == [NoCall EXCEPT !.op = "get", !.get_ids = ids]
    IN
    /\ st_pc = "Ready"
    /\ st_ret' = IF use_chroma
                 THEN [call EXCEPT !.backend = "chroma",
                                   !.got = collection_get(collection, ids)]
                 ELSE IF ~faiss_ready
                 THEN [call EXCEPT !.backend = "faiss", !.raised = TRUE]
                 ELSE [call EXCEPT !.backend = "faiss",
                                   !.got = get_by_ids_faiss(id_map, metadata_store, ids)]
    /\ st_pc' = "Done"
    /\ UNCHANGED <<use_chroma, chroma_failed, faiss_ready, collection, index,
                   id_map, metadata_store, dimension, disk_index, disk_meta, adds>>

delete_by_document_id(document_id) ==
    LET call == [NoCall EXCEPT !.op = "delete", !.document_id = document_id]
    IN
    /\ st_pc = "Ready"
    /\ IF use_chroma
       THEN /\ collection' = collection_delete(collection, document_id)
            /\ id_map' = id_map
            /\ st_ret' = [call EXCEPT !.backend = "chroma"]
       ELSE /\ collection' = collection
            /\ id_map' = delete_faiss_id_map(id_map, metadata_store, document_id)
            /\ st_ret' = [call EXCEPT !.backend = "faiss",
                                      !.printed = <<DeleteWarning>>]
    /\ st_pc' = "Done"
    /\ UNCHANGED <<use_chroma, chroma_failed, faiss_ready, index,
                   metadata_store, dimension, disk_index, disk_meta, adds>>

count ==
    LET call == [NoCall EXCEPT !.op = "count"]
    IN
    /\ st_pc = "Ready"
    /\ st_ret' = IF use_chroma
                 THEN [call EXCEPT !.backend = "chroma",
                                   !.counted = collection_count(collection)]
                 ELSE IF ~faiss_ready
                 THEN [call EXCEPT !.backend = "faiss", !.raised = TRUE]
                 ELSE [call EXCEPT !.backend = "faiss", !.counted = count_faiss(index)]
    /\ st_pc' = "Done"
    /\ UNCHANGED <<use_chroma, chroma_failed, faiss_ready, collection, index,
                   id_map, metadata_store, dimension, disk_index, disk_meta, adds>>

(***************************************************************************)
(* Concurrent ingestions on the fallback backend.  Each ingestion is one   *)
(* call of process_pdf: it constructs its own VectorStoreManager (the      *)
(* managed backend failing to initialize), which looks for the two files   *)
(* and reads one after the other, and then adds its chunks, which rewrites *)
(* them one after the other.  The repository takes no lock: the steps of   *)
(* the calls interleave freely.  When the callers serialize, they hold a   *)
(* mutex around each add_embeddings call (the add and the two writes); the *)
(* constructor runs before it is taken.  Opening a file for writing        *)
(* empties it, and the content is there when the write has ended.          *)
(***************************************************************************)
Ingestions == 1..MaxIngestions
Free == {}

\* A file opened for writing whose content is not written yet.
TruncatedFile == [exists |-> TRUE, truncated |-> TRUE]

\* str(uuid.uuid4()): a document id no other ingestion has.
DocumentIdOf(i) == <<"p">> \o IntToStr(i)

\* The session of ingestion i: one per call.
SessionIdOf(i) == <<"s">> \o IntToStr(i)

\* The embeddings an ingestion's chunks can get.
IngestEmbeddings == {<<<<0>>>>, <<<<0>>, <<4>>>>, <<<<1, 1>>>>}

\* os.path.join(base_dir, session_id, document_id, f"chunk_{i}.md")
ChunkPath(session_id, document_id, i) ==
    <<"backend/app/chunks", "/">> \o session_id \o <<"/">> \o document_id
    \o <<"/", "chunk_">> \o IntToStr(i) \o <<".md">>

\* convert_to_markdown: chunk i of n, by its last line (the text is the
\* PDF's).
markdown_chunk(i, n) ==
    <<"*Chunk ">> \o IntToStr(i) \o <<" of ">> \o IntToStr(n) \o <<"*">>

\* What generate_and_store_embeddings passes to add_embeddings.
UploadBatch(document_id, session_id, n, embeddings) ==
    [embeddings |-> embeddings,
     documents |-> [i \in 1..n |-> markdown_chunk(i, n)],
     metadatas |-> [i \in 1..n |->
                      [document_id |-> document_id, session_id |-> session_id,
                       chunk_index |-> i - 1, total_chunks |-> n]],
     ids |-> Nothing]

\* What the process_pdf call of ingestion i passes to add_embeddings.
IngestBatch(i) ==
    UploadBatch(DocumentIdOf(i), SessionIdOf(i), Len(ig_embeddings[i]),
                ig_embeddings[i])

\* save_chunks_to_disk of ingestion i, which process_pdf calls before it
\* builds its VectorStoreManager: one file per chunk.
IngestSaved(i) ==
    [session_id |-> SessionIdOf(i), document_id |-> DocumentIdOf(i),
     files |-> [n \in 1..Len(ig_embeddings[i]) |->
                  ChunkPath(SessionIdOf(i), DocumentIdOf(i), n)]]

RestIg ==
    /\ ig_pc = [i \in Ingestions |-> "Off"]
    /\ managers = [i \in Ingestions |-> NoFaissState]
    /\ mutex = Free
    /\ serialized = FALSE
    /\ ig_embeddings = [i \in Ingestions |-> <<>>]

\* Every process_pdf call is at vector_store = VectorStoreManager(...), the
\* four fallback attributes just set to their empty values; its chunk files
\* are on disk (see InitIngest).  The calls run as the repository has them,
\* with no lock, or with the callers' mutex around each add_embeddings call.
InitIg ==
    /\ ig_pc = [i \in Ingestions |-> "Start"]
    /\ managers = [i \in Ingestions |-> NoFaissState]
    /\ mutex = Free
    /\ serialized \in BOOLEAN
    /\ ig_embeddings \in [Ingestions -> IngestEmbeddings]

\* _initialize_faiss: os.path.exists(index_path).  Without the file nothing
\* is loaded and the constructor returns.
ingest_exists_index(i) ==
    /\ ig_pc[i] = "Start"
    /\ ig_pc' = [ig_pc EXCEPT ![i] = IF disk_index.exists THEN "IndexSeen"
                                     ELSE "Constructed"]
    /\ UNCHANGED <<managers, mutex, ig_embeddings, serialized, disk_index, disk_meta, adds>>

\* _initialize_faiss: os.path.exists(metadata_path).
ingest_exists_metadata(i) ==
    /\ ig_pc[i] = "IndexSeen"
    /\ ig_pc' = [ig_pc EXCEPT ![i] = IF disk_meta.exists THEN "BothSeen"
                                     ELSE "Constructed"]
    /\ UNCHANGED <<managers, mutex, ig_embeddings, serialized, disk_index, disk_meta, adds>>

\* _initialize_faiss: faiss.read_index(index_path).  On a file that is being
\* written it raises; process_pdf catches that and returns without
\* vector ids.
ingest_read_index(i) ==
    /\ ig_pc[i] = "BothSeen"
    /\ IF disk_index = TruncatedFile
       THEN /\ ig_pc' = [ig_pc EXCEPT ![i] = "Done"]
            /\ UNCHANGED managers
       ELSE /\ ig_pc' = [ig_pc EXCEPT ![i] = "IndexRead"]
            /\ managers' = [managers EXCEPT ![i].index = disk_index.index]
    /\ UNCHANGED <<mutex, ig_embeddings, serialized, disk_index, disk_meta, adds>>

\* _initialize_faiss: pickle.load(f) and the three assignments; the
\* constructor returns.  On a file that is being written pickle.load raises;
\* process_pdf catches that and returns without vector ids.
ingest_load_metadata(i) ==
    /\ ig_pc[i] = "IndexRead"
    /\ IF disk_meta = TruncatedFile
       THEN /\ ig_pc' = [ig_pc EXCEPT ![i] = "Done"]
            /\ UNCHANGED managers
       ELSE /\ ig_pc' = [ig_pc EXCEPT ![i] = "Constructed"]
            /\ managers' = [managers EXCEPT
                              ![i].id_map = disk_meta.id_map,
                              ![i].metadata_store = disk_meta.metadata_store,
                              ![i].dimension = disk_meta.dimension,
                              ![i].loaded = TRUE]
    /\ UNCHANGED <<mutex, ig_embeddings, serialized, disk_index, disk_meta, adds>>

\* The caller takes the mutex before add_embeddings.
mutex_acquire(i) ==
    /\ serialized
    /\ ig_pc[i] = "Constructed"
    /\ mutex = Free
    /\ mutex' = {i}
    /\ ig_pc' = [ig_pc EXCEPT ![i] = "Locked"]
    /\ UNCHANGED <<managers, ig_embeddings, serialized, disk_index, disk_meta, adds>>

\* _add_to_faiss up to the call of _persist_faiss; what it raises is caught
\* by process_pdf.
ingest_add(i) ==
    LET m == managers[i]
        inp == IngestBatch(i)
        ids == generated_ids(inp.metadatas)
        ix0 == IF m.index.built THEN m.index ELSE IndexFlatL2(Len(inp.embeddings[1]))
        start_idx == ntotal(ix0)
    IN
    /\ ig_pc[i] = IF serialized THEN "Locked" ELSE "Constructed"
    /\ IF add_to_faiss_raises(m.index, inp.embeddings)
       THEN /\ ig_pc' = [ig_pc EXCEPT ![i] = "Failed"]
            /\ UNCHANGED managers
       ELSE /\ ig_pc' = [ig_pc EXCEPT ![i] = "Added"]
            /\ managers' = [managers EXCEPT ![i] =
                   [index |-> index_add(ix0, inp.embeddings),
                    id_map |-> add_to_faiss_id_map(m.id_map, start_idx,
                                   inp.documents, inp.metadatas, ids),
                    metadata_store |-> add_to_faiss_metadata_store(m.metadata_store,
                                   start_idx, inp.documents, inp.metadatas, ids),
                    dimension |-> IF m.index.built THEN m.dimension ELSE ix0.d,
                    loaded |-> m.loaded]]
    /\ UNCHANGED <<mutex, ig_embeddings, serialized, disk_index, disk_meta, adds>>

\* faiss.write_index(self.index, index_path) opens the file.
persist_faiss_index_open(i) ==
    /\ ig_pc[i] = "Added"
    /\ ig_pc' = [ig_pc EXCEPT ![i] = "IndexOpen"]
    /\ disk_index' = TruncatedFile
    /\ UNCHANGED <<managers, mutex, ig_embeddings, serialized, disk_meta, adds>>

\* faiss.write_index(self.index, index_path) has written the index.
persist_faiss_index(i) ==
    /\ ig_pc[i] = "IndexOpen"
    /\ ig_pc' = [ig_pc EXCEPT ![i] = "IndexWritten"]
    /\ disk_index' = IndexFile(managers[i].index)
    /\ UNCHANGED <<managers, mutex, ig_embeddings, serialized, disk_meta, adds>>

\* open(metadata_path, 'wb')
persist_faiss_metadata_open(i) ==
    /\ ig_pc[i] = "IndexWritten"
    /\ ig_pc' = [ig_pc EXCEPT ![i] = "MetadataOpen"]
    /\ disk_meta' = TruncatedFile
    /\ UNCHANGED <<managers, mutex, ig_embeddings, serialized, disk_index, adds>>

\* pickle.dump({...}, f), the file is closed and add_embeddings returns.
persist_faiss_metadata(i) ==
    LET inp == IngestBatch(i)
    IN
    /\ ig_pc[i] = "MetadataOpen"
    /\ ig_pc' = [ig_pc EXCEPT ![i] = "Persisted"]
    /\ disk_meta' = MetadataFile(managers[i].id_map, managers[i].metadata_store,
                                 managers[i].dimension)
    /\ adds' = Append(adds, [backend |-> "faiss", n |-> Len(inp.embeddings),
                             records |-> ZipRecords(inp.documents, inp.metadatas,
                                                    generated_ids(inp.metadatas))])
    /\ UNCHANGED <<managers, mutex, ig_embeddings, serialized, disk_index>>

\* process_pdf returns, no lock taken.
ingest_return(i) ==
    /\ ~serialized
    /\ ig_pc[i] \in {"Persisted", "Failed"}
    /\ ig_pc' = [ig_pc EXCEPT ![i] = "Done"]
    /\ UNCHANGED <<managers, mutex, ig_embeddings, serialized, disk_index, disk_meta, adds>>

\* The caller gives the mutex back; process_pdf returns.
mutex_release(i) ==
    /\ serialized
    /\ ig_pc[i] \in {"Persisted", "Failed"}
    /\ mutex = {i}
    /\ mutex' = Free
    /\ ig_pc' = [ig_pc EXCEPT ![i] = "Done"]
    /\ UNCHANGED <<managers, ig_embeddings, serialized, disk_index, disk_meta, adds>>

(***************************************************************************)
(* The HTTP boundary: startup_event, POST /api/upload and POST /api/chat.  *)
(* The chat handler runs process_chat on the orchestrator built at startup *)
(* (the steps above); process_pdf is the upload handler's one call: it     *)
(* saves the chunks, adds them to a VectorStoreManager of its own and      *)
(* returns its dict, or raises.  A handler runs to its end before the next *)
(* request is taken.                                                       *)
(***************************************************************************)
Orchestrator == <<"ChatOrchestrator">>

\* What a handler answers: the response model it returns, or the
\* HTTPException it raises.
NoBody == [none |-> TRUE]
NoResponse == [status |-> 0, detail |-> <<>>, body |-> NoBody]
HTTPException(status_code, detail) ==
    [status |-> status_code, detail |-> detail, body |-> NoBody]
Returns(body) == [status |-> 200, detail |-> <<>>, body |-> body]

\* The call a handler makes (process_chat, process_pdf) and how it ended.
NotCalled == [called |-> FALSE, raised |-> FALSE, value |-> NotReturned]
CallReturned(v) == [called |-> TRUE, raised |-> FALSE, value |-> v]
CallRaised == [called |-> TRUE, raised |-> TRUE, value |-> NotReturned]

NoRequest == [kind |-> "none"]

\* s.endswith(suffix)
EndsWith(s, suffix) ==
    Len(s) >= Len(suffix) /\ SubSeq(s, Len(s) - Len(suffix) + 1, Len(s)) = suffix

DotPdf == <<".", "p", "d", "f">>
Filenames ==
    {<<"a">> \o DotPdf, DotPdf, <<"a", ".", "t", "x", "t">>, <<"p", "d", "f">>,
     <<"a", ".", "P", "D", "F">>, DotPdf \o <<"x">>}

\* The dict process_pdf returns: its keys in insertion order, each with its
\* value.  vector_ids is set on every path.
process_pdf_result(document_id, session_id, num_chunks, file_paths, vector_ids) ==
    << <<"document_id", document_id>>, <<"session_id", session_id>>,
       <<"num_chunks", num_chunks>>, <<"file_paths", file_paths>>,
       <<"vector_ids", vector_ids>> >>

\* str(uuid.uuid4()) for the document and for a session not given: ids that
\* no earlier upload got.
NewDocumentId == <<"u">> \o IntToStr(2 * Len(chunk_dirs) + 1)
NewSessionId == <<"u">> \o IntToStr(2 * Len(chunk_dirs) + 2)
SessionIds == {None, <<>>, <<"s">>}

\* The embeddings the chunks of one document can get: all of one dimension,
\* which is the provider's.
UploadEmbeddings(n) == {[i \in 1..n |-> <<i - 1>>], [i \in 1..n |-> <<1, 1>>]}

\* What the PDF and the embedding provider give one upload: text extraction
\* raises, or the text has n chunks, whose embeddings are generated (Some)
\* or not (Nothing: EmbeddingGenerator(...) or generate_embeddings raised).
PdfInputs ==
    {[raised |-> TRUE, msg |-> m, n |-> 0, embeddings |-> Nothing] : m \in ExcMsgs}
    \cup UNION {{[raised |-> FALSE, msg |-> <<>>, n |-> n, embeddings |-> e] :
                    e \in {Nothing} \cup {Some(v) : v \in UploadEmbeddings(n)}} :
                 n \in 0..MaxPdfChunks}

\* Nothing is stored: what the try block of process_pdf raised was caught.
NotVectorized ==
    [vector_ids |-> <<>>, stored |-> FALSE, collection |-> collection,
     disk_index |-> disk_index, disk_meta |-> disk_meta]

\* The try block of process_pdf: a VectorStoreManager is built on the
\* persist directory (ok: the managed backend initializes; otherwise the
\* fallback loads the two files) and the batch is added to it, which on the
\* fallback rewrites the two files.  The outcomes: the vector ids, and what
\* the persist directory holds afterwards.
vectorize(batch, ok) ==
    LET ids == generated_ids(batch.metadatas)
        m == initialize_faiss(disk_index, disk_meta)
        e == batch.embeddings.value
        ix0 == IF m.index.built THEN m.index ELSE IndexFlatL2(Len(e[1]))
        start_idx == ntotal(ix0)
        im1 == add_to_faiss_id_map(m.id_map, start_idx, batch.documents,
                                   batch.metadatas, ids)
        ms1 == add_to_faiss_metadata_store(m.metadata_store, start_idx,
                                           batch.documents, batch.metadatas, ids)
    IN  IF ~batch.embeddings.some THEN {NotVectorized}
        ELSE IF ok
        THEN {IF out.raised THEN NotVectorized
              ELSE [NotVectorized EXCEPT !.vector_ids = ids, !.stored = TRUE,
                                         !.collection = out.collection] :
                out \in collection_add(collection, e, batch.documents,
                                       batch.metadatas, ids)}
        ELSE IF add_to_faiss_raises(m.index, e) THEN {NotVectorized}
        ELSE {[NotVectorized EXCEPT
                 !.vector_ids = ids, !.stored = TRUE,
                 !.disk_index = IndexFile(index_add(ix0, e)),
                 !.disk_meta = MetadataFile(im1, ms1,
                                   IF m.index.built THEN m.dimension ELSE ix0.d)]}

\* process_pdf(pdf_path, session_id, ...): it raises when the text cannot be
\* extracted; otherwise it saves the chunks, vectorizes them and returns its
\* dict.  The outcomes, each with what it leaves on disk.
process_pdf(session_id, pdf, ok) ==
    LET document_id == NewDocumentId
        sid == IF session_id = None \/ session_id = <<>> THEN NewSessionId
               ELSE session_id
        file_paths == [i \in 1..pdf.n |-> ChunkPath(sid, document_id, i)]
    IN  IF pdf.raised
        THEN {[raised |-> TRUE,
               msg |-> <<"Error extracting text from PDF: ">> \o pdf.msg,
               value |-> <<>>, saved |-> <<>>, store |-> NotVectorized]}
        ELSE {[raised |-> FALSE, msg |-> <<>>,
               value |-> process_pdf_result(document_id, sid, pdf.n, file_paths,
                                            v.vector_ids),
               saved |-> <<[session_id |-> sid, document_id |-> document_id,
                            files |-> file_paths]>>,
               store |-> v] :
                v \in vectorize(UploadBatch(document_id, sid, pdf.n, pdf.embeddings),
                                ok)}

\* a, b, c, d = value: the value is iterated, and a dict gives its keys.
\* The ValueError says how many names there are and, when the values run
\* out, how many values there were.
TooManyValues(n) ==
    <<"too many values to unpack (expected ">> \o IntToStr(n) \o <<")">>
NotEnoughValues(n, got) ==
    <<"not enough values to unpack (expected ">> \o IntToStr(n)
    \o <<", got ">> \o IntToStr(got) \o <<")">>
unpack(d, n) ==
    IF Len(d) > n
    THEN [raised |-> TRUE, msg |-> TooManyValues(n), values |-> <<>>]
    ELSE IF Len(d) < n
    THEN [raised |-> TRUE, msg |-> NotEnoughValues(n, Len(d)), values |-> <<>>]
    ELSE [raised |-> FALSE, msg |-> <<>>, values |-> [i \in 1..n |-> d[i][1]]]

\* The try block of upload_document and its except clause, given what
\* process_pdf did.  The names unpacked are keys of the dict, so num_chunks
\* is no integer and UploadResponse rejects it.  (The call of
\* add_documents_from_session on the global store changes no answer: what it
\* raises is caught and printed.)
upload_try(out) ==
    IF out.raised
    THEN HTTPException(500, <<"Error processing PDF: ">> \o out.msg)
    ELSE LET u == unpack(out.value, 4)
         IN  IF u.raised
             THEN HTTPException(500, <<"Error processing PDF: ">> \o u.msg)
             ELSE HTTPException(500, <<"Error processing PDF: ">>
                                     \o <<"validation error for UploadResponse">>)

\* Mutant: every exception of the try block becomes a 500.
chat_except_all(exc) ==
    HTTPException(500, <<"Error processing chat request: ">> \o exc.detail)

\* The except clauses of chat: an HTTPException is raised again as it is,
\* any other exception becomes a 500.
chat_except(exc) ==
    IF exc.status # 0 THEN exc
    ELSE HTTPException(500, <<"Error processing chat request: ">> \o exc.detail)

\* An exception that is no HTTPException.
OtherException(msg) == [status |-> 0, detail |-> msg, body |-> NoBody]

\* sources: the source of each chunk, each once, in order of appearance.
RECURSIVE extract_sources(_, _)
extract_sources(cs, sources) ==
    IF cs = <<>> THEN sources
    ELSE LET source == Get(Get(Head(cs), "metadata", <<>>), "source", Unknown)
         IN  extract_sources(Tail(cs),
                 IF \E i \in 1..Len(sources) : sources[i] = source
                 THEN sources ELSE Append(sources, source))

\* The ChatResponse built from a result with success.
ChatResponse(res, session_id) ==
    LET sources == extract_sources(Get(res, "chunks", <<>>), <<>>)
    IN  [response |-> Get(res, "response", <<"No response generated">>),
         session_id |-> IF session_id = None \/ session_id = <<>>
                        THEN <<"default_session">> ELSE session_id,
         sources |-> IF sources # <<>> THEN Some(sources) ELSE Nothing,
         rephrased_query |-> Get(res, "rephrased_query", None),
         followup_questions |-> Get(res, "followup_questions", None),
         num_chunks_retrieved |-> Get(res, "num_chunks_retrieved", 0)]

\* The body of chat's try block after process_chat returned res.
chat_try(res, session_id) ==
    IF ~Get(res, "success", FALSE)
    THEN chat_except(HTTPException(400, Get(res, "error", <<"Invalid query">>)))
    ELSE Returns(ChatResponse(res, session_id))

\* The requests drawn: every query no longer than the shortest valid one,
\* without a session id, top_k absent (0) or 1.
ChatRequests ==
    {[kind |-> "chat", query |-> q, session_id |-> s, top_k |-> k] :
        q \in {x \in Queries : Len(x) <= MinQueryLen}, s \in {None}, k \in {0, 1}}

RestHttp ==
    /\ api_pc = "Off" /\ chat_orchestrator = None /\ main_vector_store = None
    /\ api_request = NoRequest /\ api_response = NoResponse /\ api_call = NotCalled

RestApi == RestHttp /\ chunk_dirs = <<>>

InitApi ==
    /\ api_pc = "Starting" /\ chat_orchestrator = None /\ main_vector_store = None
    /\ api_request = NoRequest /\ api_response = NoResponse /\ api_call = NotCalled
    /\ chunk_dirs = <<>>

\* startup_event: ChromaVectorStore() and then ChatOrchestrator(...) return
\* or raise; what is raised is caught, and the globals not yet bound stay None.
startup_event(store_ok, orchestrator_ok) ==
    /\ api_pc = "Starting"
    /\ api_pc' = "Idle"
    /\ main_vector_store' = IF store_ok THEN Store ELSE None
    /\ chat_orchestrator' = IF store_ok /\ orchestrator_ok THEN Orchestrator ELSE None
    /\ vector_store' = IF store_ok /\ orchestrator_ok THEN Store ELSE vector_store
    /\ UNCHANGED <<pc, user_query, top_k, rephrased_query, chunks, response, result,
                   calls, llm_failed, rephrase_out>>
    /\ UNCHANGED <<api_request, api_response, api_call, chunk_dirs>>

\* POST /api/upload: the answer, and what process_pdf left in the chunk
\* directory and in the persist directory of the vector store.
upload_document(filename, session_id, pdf, ok) ==
    /\ api_pc = "Idle"
    /\ api_pc' = "Responded"
    /\ api_request' = [kind |-> "upload", filename |-> filename,
                       session_id |-> session_id]
    /\ IF ~EndsWith(filename, DotPdf)
       THEN /\ api_response' = HTTPException(400, <<"Only PDF files are supported">>)
            /\ api_call' = NotCalled
            /\ UNCHANGED <<chunk_dirs, collection, disk_index, disk_meta, adds>>
       ELSE \E out \in process_pdf(session_id, pdf, ok) :
              /\ Len(chunk_dirs) + Len(out.saved) <= MaxUploads
              /\ api_response' = upload_try(out)
              /\ api_call' = IF out.raised THEN CallRaised
                             ELSE [called |-> TRUE, raised |-> FALSE,
                                   value |-> out.value]
              /\ chunk_dirs' = chunk_dirs \o out.saved
              /\ collection' = out.store.collection
              /\ disk_index' = out.store.disk_index
              /\ disk_meta' = out.store.disk_meta
              /\ adds' = IF out.store.stored
                         THEN Append(adds,
                                [backend |-> IF ok THEN "chroma" ELSE "faiss",
                                 n |-> pdf.n,
                                 records |-> [i \in 1..pdf.n |->
                                     [id |-> out.store.vector_ids[i],
                                      document |-> markdown_chunk(i, pdf.n),
                                      metadata |->
                                          [document_id |-> out.saved[1].document_id,
                                           session_id |-> out.saved[1].session_id,
                                           chunk_index |-> i - 1,
                                           total_chunks |-> pdf.n]]]])
                         ELSE adds
    /\ UNCHANGED <<chat_orchestrator, main_vector_store>>

\* POST /api/chat is entered: the 503, or the call of process_chat.
chat(request) ==
    /\ api_pc = "Idle"
    /\ api_request' = request
    /\ IF chat_orchestrator = None
       THEN /\ api_pc' = "Responded"
            /\ api_response' = HTTPException(503, <<"Chat service not initialized. Please ensure GEMINI_API_KEY is set.">>)
            /\ UNCHANGED chatVars
       ELSE /\ api_pc' = "InChat"
            /\ api_response' = NoResponse
            /\ process_chat(request.query,
                            IF request.top_k = 0 THEN 5 ELSE request.top_k)
    /\ api_call' = NotCalled
    /\ UNCHANGED <<chat_orchestrator, main_vector_store, chunk_dirs>>

\* process_chat returned its dict: the rest of the try block.
chat_returned ==
    /\ api_pc = "InChat"
    /\ pc \in {"Completed", "Rejected"}
    /\ api_pc' = "Responded"
    /\ api_call' = CallReturned(result)
    /\ api_response' = chat_try(result, api_request.session_id)
    /\ ReturnToCaller
    /\ UNCHANGED <<chat_orchestrator, main_vector_store, api_request, chunk_dirs>>

\* process_chat raised: the exception reaches chat's except clauses.
chat_raised ==
    /\ api_pc = "InChat"
    /\ pc = "Raised"
    /\ api_pc' = "Responded"
    /\ api_call' = CallRaised
    /\ api_response' = chat_except(OtherException(result.exception))
    /\ ReturnToCaller
    /\ UNCHANGED <<chat_orchestrator, main_vector_store, api_request, chunk_dirs>>

\* The response is sent; the handler is ready for the next request.
Respond ==
    /\ api_pc = "Responded"
    /\ api_pc' = "Idle"
    /\ api_request' = NoRequest
    /\ api_response' = NoResponse
    /\ api_call' = NotCalled
    /\ UNCHANGED <<chat_orchestrator, main_vector_store, chunk_dirs>>

(***************************************************************************)
(* Specifications                                                          *)
(***************************************************************************)
Init == InitChat /\ RestFq /\ RestCt /\ RestSt /\ RestIg /\ RestApi

Next ==
    \/ (\E v \in {None, Store} : set_vector_store(v)) /\ UNCHANGED <<fqVars, ctVars, stVars, igVars, apiVars>>
    \/ (\E q \in Queries, k \in TopKs : process_chat(q, k)) /\ UNCHANGED <<fqVars, ctVars, stVars, igVars, apiVars>>
    \/ Rephrase /\ UNCHANGED <<fqVars, ctVars, stVars, igVars, apiVars>>
    \/ Retrieve /\ UNCHANGED <<fqVars, ctVars, stVars, igVars, apiVars>>
    \/ Answer /\ UNCHANGED <<fqVars, ctVars, stVars, igVars, apiVars>>
    \/ Followup /\ UNCHANGED <<fqVars, ctVars, stVars, igVars, apiVars>>
    \/ ReturnToCaller /\ UNCHANGED <<fqVars, ctVars, stVars, igVars, apiVars>>

\* The chat pipeline: process_chat calls, one at a time, and set_vector_store.
Spec == Init /\ [][Next]_vars

NextFq ==
    \/ FollowupReturns /\ UNCHANGED <<chatVars, ctVars, stVars, igVars, apiVars>>
    \/ FollowupRaises /\ UNCHANGED <<chatVars, ctVars, stVars, igVars, apiVars>>

InitFollowup == ChatIdle /\ InitFq /\ RestCt /\ RestSt /\ RestIg /\ RestApi

\* generate_followup_questions over raw LLM outputs.
SpecFollowup == InitFollowup /\ [][NextFq]_vars

NextCt ==
    \/ chunk_text_enter /\ UNCHANGED <<chatVars, fqVars, stVars, igVars, apiVars>>
    \/ chunk_text_iterate /\ UNCHANGED <<chatVars, fqVars, stVars, igVars, apiVars>>
    \/ chunk_text_return /\ UNCHANGED <<chatVars, fqVars, stVars, igVars, apiVars>>

InitChunk == ChatIdle /\ RestFq /\ InitCt /\ RestSt /\ RestIg /\ RestApi

\* chunk_text over texts, chunk sizes and overlaps.
SpecChunk == InitChunk /\ [][NextCt]_vars

NextSt ==
    \/ (\E arg \in BOOLEAN, ok \in BOOLEAN : Construct(arg, ok))
           /\ UNCHANGED <<chatVars, fqVars, ctVars, igVars, apiVars>>
    \/ Exit /\ UNCHANGED <<chatVars, fqVars, ctVars, igVars, apiVars>>
    \/ Resume /\ UNCHANGED <<chatVars, fqVars, ctVars, igVars, apiVars>>
    \/ (\E inp \in AddInputs : add_embeddings(inp))
           /\ UNCHANGED <<chatVars, fqVars, ctVars, igVars, apiVars>>
    \/ (\E inp \in QueryInputs : query(inp[1], inp[2], inp[3]))
           /\ UNCHANGED <<chatVars, fqVars, ctVars, igVars, apiVars>>
    \/ (\E ids \in GetIds : get_by_ids(ids)) /\ UNCHANGED <<chatVars, fqVars, ctVars, igVars, apiVars>>
    \/ (\E doc \in Docs : delete_by_document_id(doc))
           /\ UNCHANGED <<chatVars, fqVars, ctVars, igVars, apiVars>>
    \/ count /\ UNCHANGED <<chatVars, fqVars, ctVars, igVars, apiVars>>

InitStore == ChatIdle /\ RestFq /\ RestCt /\ InitSt /\ RestIg /\ RestApi

SpecStore == InitStore /\ [][NextSt]_vars

NextIg ==
    \/ (\E i \in Ingestions : ingest_exists_index(i))
           /\ UNCHANGED <<chatVars, fqVars, ctVars, stObjectVars, apiVars>>
    \/ (\E i \in Ingestions : ingest_exists_metadata(i))
           /\ UNCHANGED <<chatVars, fqVars, ctVars, stObjectVars, apiVars>>
    \/ (\E i \in Ingestions : ingest_read_index(i))
           /\ UNCHANGED <<chatVars, fqVars, ctVars, stObjectVars, apiVars>>
    \/ (\E i \in Ingestions : ingest_load_metadata(i))
           /\ UNCHANGED <<chatVars, fqVars, ctVars, stObjectVars, apiVars>>
    \/ (\E i \in Ingestions : mutex_acquire(i))
           /\ UNCHANGED <<chatVars, fqVars, ctVars, stObjectVars, apiVars>>
    \/ (\E i \in Ingestions : ingest_add(i))
           /\ UNCHANGED <<chatVars, fqVars, ctVars, stObjectVars, apiVars>>
    \/ (\E i \in Ingestions : persist_faiss_index_open(i))
           /\ UNCHANGED <<chatVars, fqVars, ctVars, stObjectVars, apiVars>>
    \/ (\E i \in Ingestions : persist_faiss_index(i))
           /\ UNCHANGED <<chatVars, fqVars, ctVars, stObjectVars, apiVars>>
    \/ (\E i \in Ingestions : persist_faiss_metadata_open(i))
           /\ UNCHANGED <<chatVars, fqVars, ctVars, stObjectVars, apiVars>>
    \/ (\E i \in Ingestions : persist_faiss_metadata(i))
           /\ UNCHANGED <<chatVars, fqVars, ctVars, stObjectVars, apiVars>>
    \/ (\E i \in Ingestions : ingest_return(i))
           /\ UNCHANGED <<chatVars, fqVars, ctVars, stObjectVars, apiVars>>
    \/ (\E i \in Ingestions : mutex_release(i))
           /\ UNCHANGED <<chatVars, fqVars, ctVars, stObjectVars, apiVars>>

\* Every ingestion has saved its chunks and is at its constructor.
InitIngest ==
    /\ ChatIdle /\ RestFq /\ RestCt /\ RestSt /\ InitIg /\ RestHttp
    /\ chunk_dirs = [i \in Ingestions |-> IngestSaved(i)]

\* Concurrent process_pdf calls on one persist directory, the fallback
\* backend in use: as the repository runs them, with no lock, or with each
\* add_embeddings call under the callers' mutex.
SpecIngest == InitIngest /\ [][NextIg]_vars

NextApi ==
    \/ (\E store_ok \in BOOLEAN, orchestrator_ok \in BOOLEAN :
            startup_event(store_ok, orchestrator_ok))
           /\ UNCHANGED <<fqVars, ctVars, stVars, igVars>>
    \/ (\E request \in ChatRequests : chat(request))
           /\ UNCHANGED <<fqVars, ctVars, stVars, igVars>>
    \/ Rephrase /\ UNCHANGED <<fqVars, ctVars, stVars, igVars, apiVars>>
    \/ Retrieve /\ UNCHANGED <<fqVars, ctVars, stVars, igVars, apiVars>>
    \/ Answer /\ UNCHANGED <<fqVars, ctVars, stVars, igVars, apiVars>>
    \/ Followup /\ UNCHANGED <<fqVars, ctVars, stVars, igVars, apiVars>>
    \/ chat_returned /\ UNCHANGED <<fqVars, ctVars, stVars, igVars>>
    \/ chat_raised /\ UNCHANGED <<fqVars, ctVars, stVars, igVars>>
    \/ Respond /\ UNCHANGED <<chatVars, fqVars, ctVars, stVars, igVars>>

InitHttp == ChatIdle /\ RestFq /\ RestCt /\ RestSt /\ RestIg /\ InitApi

\* The HTTP boundary: startup, then chat requests, one at a time.
SpecApi == InitHttp /\ [][NextApi]_vars

NextUpload ==
    \/ (\E store_ok \in BOOLEAN, orchestrator_ok \in BOOLEAN :
            startup_event(store_ok, orchestrator_ok))
           /\ UNCHANGED <<fqVars, ctVars, stVars, igVars>>
    \/ (\E filename \in Filenames, session_id \in SessionIds, pdf \in PdfInputs,
            ok \in BOOLEAN : upload_document(filename, session_id, pdf, ok))
           /\ UNCHANGED <<chatVars, fqVars, ctVars, stUploadVars, igVars>>
    \/ Respond /\ UNCHANGED <<chatVars, fqVars, ctVars, stVars, igVars>>

\* The HTTP boundary: startup, then upload requests, one at a time, on the
\* chunk directory and the persist directory of the vector store.
SpecUpload == InitHttp /\ [][NextUpload]_vars

(***************************************************************************)
(* Properties                                                              *)
(***************************************************************************)
\* The claims' own reading of "empty or shorter than 3 characters after
\* trimming whitespace", stated without validate_query.
TooShort(q) == q = <<>> \/ Len(Strip(q)) < 3

OpsOf(cs) == [i \in 1..Len(cs) |-> cs[i].op]
Issued(op) == \E i \in 1..Len(calls) : calls[i].op = op
TimesIssued(op) == Cardinality({i \in 1..Len(calls) : calls[i].op = op})
CallOf(op) == calls[CHOOSE i \in 1..Len(calls) : calls[i].op = op]
InFlightOrDone == pc \notin {"Idle", "Received"}

IsPrefix(p, t) == Len(p) <= Len(t) /\ SubSeq(t, 1, Len(p)) = p

\* C1: a query that is empty or shorter than 3 characters after trimming is
\* rejected: success=false, the original query, no chunks, no follow-ups, an
\* error message, and no retrieval, answer or follow-up call was issued.
C1_ShortQueryRejected ==
    (InFlightOrDone /\ TooShort(user_query)) =>
        /\ pc = "Rejected"
        /\ result.returned
        /\ result.success = FALSE
        /\ result.original_query = user_query
        /\ result.chunks = <<>>
        /\ result.followup_questions = <<>>
        /\ "error" \in DOMAIN result /\ result.error # <<>>
        /\ ~Issued("search") /\ ~Issued("llm_answer") /\ ~Issued("llm_followup")

\* C1 witness: a query of two letters after a blank has been rejected.
C1_Witness ==
    /\ pc = "Rejected"
    /\ user_query = <<" ", "a", "a">>
    /\ result.success = FALSE

\* The order of the external calls of one process_chat call.
CallOrder == <<"llm_rephrase", "search", "llm_answer", "llm_followup">>
Rank(op) == CHOOSE r \in 1..Len(CallOrder) : CallOrder[r] = op

C2_StateOrder ==
    /\ \A i, j \in 1..Len(calls) : i < j => Rank(calls[i].op) < Rank(calls[j].op)
    /\ Issued("search") => pc \in {"Retrieved", "Answered", "Completed", "Raised"}
    /\ Issued("llm_answer") => pc \in {"Answered", "Completed"}
    /\ Issued("llm_followup") => pc = "Completed"
    /\ pc \in {"Answered", "Completed"} => Issued("llm_answer") /\ response # None
    /\ pc = "Completed" => Issued("llm_followup")
    /\ pc = "Rejected" => calls = <<>>
    /\ result.returned <=> pc \in {"Completed", "Rejected"}

C2_Step ==
    pc' # pc =>
        <<pc, pc'>> \in {<<"Idle", "Received">>, <<"Received", "Rephrased">>,
                         <<"Received", "Rejected">>, <<"Rephrased", "Retrieved">>,
                         <<"Retrieved", "Answered">>, <<"Answered", "Completed">>,
                         <<"Completed", "Idle">>, <<"Rejected", "Idle">>,
                         <<"Retrieved", "Raised">>, <<"Raised", "Idle">>}

\* C2: within one process_chat call the steps occur only in the order rewrite,
\* retrieve, answer, follow-up, each at most once; the result is returned only
\* after follow-up generation, or straight from Received on rejection.  A call
\* that answer generation aborts with an exception returns no result and runs
\* no further step.
C2_PipelineOrder == []C2_StateOrder /\ [][C2_Step]_vars

\* C2 witness: a call completed having issued all four external calls.
C2_Witness ==
    /\ pc = "Completed"
    /\ OpsOf(calls) = CallOrder

\* The structured result of a call on a valid query, and the response of a
\* call whose answer LLM call failed.
StructuredSuccess ==
    /\ pc = "Completed" =>
         /\ result.success = TRUE
         /\ result.response = response
         /\ DOMAIN result = {"returned", "success", "original_query",
                             "rephrased_query", "response", "chunks",
                             "followup_questions", "num_chunks_retrieved"}
    /\ (pc \in {"Answered", "Completed"} /\ "answer" \in llm_failed) =>
         \E m \in ExcMsgs : response = ErrorPrefix \o m

\* C3 (as stated): for a valid query process_chat does not raise and returns
\* success=true whichever of the four external calls fail; a failed answer
\* call gives the response "Error generating response: <message>".
C3_AsStated ==
    (InFlightOrDone /\ ~TooShort(user_query)) =>
        /\ pc \in {"Rephrased", "Retrieved", "Answered", "Completed"}
        /\ pc # "Completed" => ENABLED (Retrieve \/ Answer \/ Followup)
        /\ StructuredSuccess

\* Every chunk of the list has no metadata key or a mapping under it.
WellFormed(cs) ==
    \A i \in 1..Len(cs) : "metadata" \in DOMAIN cs[i] => cs[i].metadata # NoneMetadata

C3_State ==
    (InFlightOrDone /\ ~TooShort(user_query)) =>
        /\ pc \in {"Rephrased", "Retrieved", "Answered", "Completed", "Raised"}
        /\ pc = "Raised" =>
             /\ ~WellFormed(chunks)
             /\ "search" \notin llm_failed
             /\ ~Issued("llm_answer") /\ ~Issued("llm_followup")
             /\ ~result.returned
        /\ pc \in {"Answered", "Completed"} => WellFormed(chunks)
        /\ pc \notin {"Completed", "Raised"} => ENABLED (Retrieve \/ Answer \/ Followup)
        /\ StructuredSuccess

C3_Step ==
    (pc \in {"Rephrased", "Retrieved", "Answered"} /\ ~TooShort(user_query)) =>
        /\ (pc = "Retrieved" /\ WellFormed(chunks)) => pc' # "Raised"
        /\ (pc = "Retrieved" /\ ~WellFormed(chunks)) => pc' \in {"Retrieved", "Raised"}
        /\ pc # "Retrieved" => pc' # "Raised"

\* C3: for a valid query process_chat raises exactly when the retrieval
\* returned a chunk whose metadata is None, which format_context rejects
\* before the answer LLM call is made.  Otherwise it does not raise and
\* returns success=true whichever of the four external calls fail; a failed
\* answer call gives the response "Error generating response: <message>".
C3_ValidQuerySucceedsOnWellFormedChunks == []C3_State /\ [][C3_Step]_vars

\* C3: a call on a valid query raised on a chunk without a metadata dict.
C3_RaisedReached == pc = "Raised" /\ ~TooShort(user_query) /\ chunks = <<MalformedChunk>>

\* C3 witness: a call completed although all four external calls raised.
C3_Witness ==
    /\ pc = "Completed"
    /\ llm_failed = {"rephrase", "search", "answer", "followup"}
    /\ result.success = TRUE
    /\ IsPrefix(ErrorPrefix, result.response)

\* C4: when retrieval raises on a valid query the chunk list is empty, answer
\* and follow-up generation still run, and the result has success=true,
\* chunks=[] and num_chunks_retrieved=0.
C4_RetrievalFailureIsZeroChunks ==
    "search" \in llm_failed =>
        /\ pc \in {"Retrieved", "Answered", "Completed"}
        /\ chunks = <<>>
        /\ pc = "Retrieved" => ENABLED Answer
        /\ pc = "Answered" => ENABLED Followup
        /\ pc \in {"Answered", "Completed"} =>
             Issued("llm_answer") /\ CallOf("llm_answer").chunks = <<>>
        /\ pc = "Completed" =>
             /\ Issued("llm_followup")
             /\ result.success = TRUE
             /\ result.chunks = <<>>
             /\ result.num_chunks_retrieved = 0

\* C4 witness: a call completed after its retrieval raised.
C4_Witness ==
    /\ pc = "Completed"
    /\ llm_failed = {"search"}
    /\ result.num_chunks_retrieved = 0

\* A call that is past step 2 without a search has no chunks, asks for the
\* answer with the literal context and returns success with zero chunks.
C5_StateNoStore ==
    (pc \in {"Retrieved", "Answered", "Completed"} /\ ~Issued("search")) =>
        /\ chunks = <<>>
        /\ pc \in {"Answered", "Completed"} =>
             CallOf("llm_answer").context = NoContext
        /\ pc = "Completed" =>
             /\ result.success = TRUE
             /\ result.chunks = <<>>
             /\ result.num_chunks_retrieved = 0

\* Step 2 with vector_store None issues no search, and no later step of the
\* call issues one.
C5_StepNoStore ==
    /\ (vector_store = None /\ pc = "Rephrased" /\ pc' = "Retrieved") =>
          calls' = calls /\ chunks' = <<>>
    /\ (pc \in {"Retrieved", "Answered"} /\ ~Issued("search")) =>
          ~(\E i \in 1..Len(calls') : calls'[i].op = "search")

\* C5: with no vector store configured when step 2 of process_chat reads it
\* (None since construction or after set_vector_store(None), which may run
\* while the call is in flight), the call on a valid query performs no
\* retrieval, asks for the answer with the context "No relevant context
\* found." and returns success=true with zero chunks.
C5_NoStoreNoRetrieval == []C5_StateNoStore /\ [][C5_StepNoStore]_vars

\* C5 witness: a call completed without a store and without a search call.
C5_Witness ==
    /\ pc = "Completed"
    /\ vector_store = None
    /\ chunks = <<>>
    /\ OpsOf(calls) = <<"llm_rephrase", "llm_answer", "llm_followup">>
    /\ result.success = TRUE

\* C6: in a completed call the answer was asked with the rephrased query and
\* the retrieved chunks, the follow-ups with the original query and the final
\* answer, and the result reports original_query and rephrased_query.
C6_WhoGetsWhichQuery ==
    pc = "Completed" =>
        /\ TimesIssued("llm_answer") = 1 /\ TimesIssued("llm_followup") = 1
        /\ CallOf("llm_answer").query = rephrased_query
        /\ CallOf("llm_answer").chunks = chunks
        /\ CallOf("llm_answer").context = format_context(chunks)
        /\ CallOf("llm_followup").query = user_query
        /\ CallOf("llm_followup").response = response
        /\ result.original_query = user_query
        /\ result.rephrased_query = rephrased_query
        /\ result.response = response
        /\ result.chunks = chunks
        /\ Issued("search") => CallOf("search").query = rephrased_query

\* C6 witness: a completed call whose rephrased query differs from the
\* original one and whose retrieval returned chunks.
C6_Witness ==
    /\ pc = "Completed"
    /\ rephrased_query # user_query
    /\ chunks # <<>>
    /\ CallOf("llm_followup").query = user_query

\* C7: process_query returns None exactly when the query is empty or shorter
\* than 3 characters after trimming, issuing no LLM call; for every other
\* query exactly one rephrasing call is issued.
C7_NullIffInvalid ==
    InFlightOrDone =>
        /\ rephrased_query = None <=> TooShort(user_query)
        /\ TooShort(user_query) => calls = <<>> /\ rephrase_out = NoOutcome
        /\ ~TooShort(user_query) =>
             /\ TimesIssued("llm_rephrase") = 1
             /\ calls[1] = [op |-> "llm_rephrase", query |-> user_query]

\* C7 witness: a query of exactly three characters after trimming went
\* through with one rephrasing call.
C7_Witness ==
    /\ pc = "Rephrased"
    /\ Len(Strip(user_query)) = 3
    /\ Len(user_query) > 3
    /\ TimesIssued("llm_rephrase") = 1

\* C8: for a valid query, a rephrasing call that raises or returns text that
\* is empty after trimming leaves the original query; process_query never
\* gives None or "" for a valid query, and only invalid queries are rejected.
C8_RephraseFallsBack ==
    /\ pc = "Rejected" => TooShort(user_query)
    /\ (InFlightOrDone /\ ~TooShort(user_query)) =>
         /\ rephrased_query # None /\ rephrased_query # <<>>
         /\ (rephrase_out.raised \/ Strip(rephrase_out.text) = <<>>) =>
              rephrased_query = user_query
         /\ (~rephrase_out.raised /\ Strip(rephrase_out.text) # <<>>) =>
              rephrased_query = Strip(rephrase_out.text)

\* C8 witness: the LLM returned only blanks and the original query was kept.
C8_Witness ==
    /\ pc = "Rephrased"
    /\ ~rephrase_out.raised
    /\ rephrase_out.text = <<" ", " ">>
    /\ rephrased_query = user_query

\* The lines of a raw text, read off the positions of its newlines.
NewlinesOf(t) == {i \in 1..Len(t) : t[i] = "\n"}
LineCount(t) == Cardinality(NewlinesOf(t)) + 1
LineStart(t, k) ==
    IF k = 1 THEN 1
    ELSE 1 + CHOOSE i \in NewlinesOf(t) :
                 Cardinality({j \in NewlinesOf(t) : j <= i}) = k - 1
LineStop(t, k) ==
    IF k = LineCount(t) THEN Len(t)
    ELSE (CHOOSE i \in NewlinesOf(t) :
              Cardinality({j \in NewlinesOf(t) : j <= i}) = k) - 1
LineOf(t, k) == SubSeq(t, LineStart(t, k), LineStop(t, k))
NonBlankLines(t) == {k \in 1..LineCount(t) : Strip(LineOf(t, k)) # <<>>}
NthNonBlank(t, n) ==
    CHOOSE k \in NonBlankLines(t) :
        Cardinality({j \in NonBlankLines(t) : j <= k}) = n

\* C9: the follow-up list has at most 3 entries, none blank: the first (up to
\* 3) non-blank lines of the LLM output, in order, each trimmed; a failed LLM
\* call gives the empty list.
C9_FollowupsFirstThreeLines ==
    /\ fq_pc = "Raised" => fq_out = <<>>
    /\ fq_pc = "Returned" =>
         /\ Len(fq_out) <= 3
         /\ \A i \in 1..Len(fq_out) : fq_out[i] # <<>> /\ Strip(fq_out[i]) = fq_out[i]
         /\ Len(fq_out) = Min(3, Cardinality(NonBlankLines(fq_text)))
         /\ \A i \in 1..Len(fq_out) :
              fq_out[i] = Strip(LineOf(fq_text, NthNonBlank(fq_text, i)))

\* C9 witness: an output of four question lines was cut to its first three.
C9_Witness ==
    /\ fq_pc = "Returned"
    /\ fq_text = <<"p", "\n", "q", "\n", "q", "\n", "p">>
    /\ fq_out = << <<"p">>, <<"q">>, <<"q">> >>

\* C9 witness of the blank-line case is part of the same run: blank and
\* padded lines between questions.
C9_BlankLinesReached ==
    /\ fq_pc = "Returned"
    /\ fq_text = <<" ", "p", "\n", " ", "\n", "\n", "q">>
    /\ fq_out = << <<"p">>, <<"q">> >>

\* C10 as stated: empty text gives no chunk, and every (non-empty) text shorter
\* than chunk_size gives exactly one chunk.
C10_AsStated ==
    ct_pc = "Done" =>
        /\ ct_text = <<>> => ct_chunks = <<>>
        /\ (ct_text # <<>> /\ Len(ct_text) < ct_size) => Len(ct_chunks) = 1

\* C10 amended: empty text gives no chunk; a non-empty text shorter than
\* chunk_size gives exactly one chunk, the trimmed text, when it holds a
\* non-whitespace character, and no chunk when it is whitespace only.
C10_ShortTextOneChunkUnlessBlank ==
    ct_pc = "Done" =>
        /\ ct_text = <<>> => ct_chunks = <<>> /\ ct_slices = <<>>
        /\ (ct_text # <<>> /\ Len(ct_text) < ct_size) =>
             /\ Len(ct_slices) = 1
             /\ (\E i \in 1..Len(ct_text) : ct_text[i] \notin Whitespace)
                  => ct_chunks = <<Strip(ct_text)>>
             /\ (\A i \in 1..Len(ct_text) : ct_text[i] \in Whitespace)
                  => ct_chunks = <<>>

\* C10 witness: a padded text shorter than chunk_size came back as one
\* trimmed chunk.
C10_Witness ==
    /\ ct_pc = "Done"
    /\ ct_text = <<" ", "a", ".", " ">>
    /\ ct_size = 5
    /\ ct_chunks = << <<"a", ".">> >>

(***************************************************************************)
(* chunk_text: coverage, chunk length and the 2,500-character upload.      *)
(***************************************************************************)
\* The (0-based) positions of text that the slice text[a:b] holds.
SlicePositions(text, a, b) ==
    {i \in 0..(Len(text) - 1) : PySlice(text, a, i + 1) # <<>> /\ i < b}

\* The position at which the slice text[a:b] begins.
SliceLo(text, a) == IF a < 0 THEN Max(a + Len(text), 0) ELSE Min(a, Len(text))

Covered ==
    UNION {SlicePositions(ct_text, ct_slices[i][1], ct_slices[i][2]) :
             i \in 1..Len(ct_slices)}

\* C11 (as stated): the slices text[start:boundary] that chunk_text takes
\* cover every position of the text: the first slice begins at 0, every
\* later slice begins at or before the boundary of the one before it, and
\* once chunk_text has returned the last slice ends at the text's length and
\* no position is left out.
C11_AsStated ==
    ct_slices # <<>> =>
        /\ SliceLo(ct_text, ct_slices[1][1]) = 0
        /\ \A i \in 1..(Len(ct_slices) - 1) :
               SliceLo(ct_text, ct_slices[i + 1][1]) <= ct_slices[i][2]
        /\ ct_pc = "Done" =>
               /\ ct_slices[Len(ct_slices)][2] >= Len(ct_text)
               /\ Covered = 0..(Len(ct_text) - 1)

\* C12 (as stated): every chunk chunk_text returns holds at most chunk_size
\* characters.
C12_AsStated ==
    ct_pc = "Done" => \A i \in 1..Len(ct_chunks) : Len(ct_chunks[i]) <= ct_size

Scenario ==
    /\ Len(ct_text) = 2500
    /\ ct_size = DefaultChunkSize
    /\ ct_overlap = DefaultOverlap
    /\ ct_pc = "Done"

\* C13 (as stated): a 2,500-character text chunked with chunk_size 1000 and
\* overlap 200 gives exactly 3 chunks.
C13_AsStated == Scenario => Len(ct_chunks) = 3

\* Some sentence ending lies where chunk_text looks for one.
HasSentenceEnding(text) ==
    \E q \in 1..(Len(text) - 1) : text[q] \in Punct /\ text[q + 1] \in Whitespace

BlankSlices ==
    {i \in 1..Len(ct_slices) :
        Inked(PySlice(ct_text, ct_slices[i][1], ct_slices[i][2])) = {}}

\* C13 (amended): a 2,500-character text chunked with chunk_size 1000 and
\* overlap 200 is cut into 3 or 4 slices, exactly 3 when no sentence ending
\* (one of . ! ? followed by whitespace) occurs in it; every slice that is
\* not blank gives one chunk, so there are at most 4 chunks and exactly 3
\* when the text has no sentence ending and no slice is blank; every slice
\* after the first starts exactly 200 characters before the boundary of the
\* slice before it.
C13_ScenarioChunks ==
    Scenario =>
        /\ Len(ct_slices) \in {3, 4}
        /\ ~HasSentenceEnding(ct_text) => Len(ct_slices) = 3
        /\ Len(ct_chunks) = Len(ct_slices) - Cardinality(BlankSlices)
        /\ \A i \in 1..(Len(ct_slices) - 1) :
               /\ ct_slices[i + 1][1] = ct_slices[i][2] - DefaultOverlap
               /\ ct_slices[i + 1][1] >= 0

C13_Witness ==
    /\ Scenario
    /\ ~HasSentenceEnding(ct_text)
    /\ BlankSlices = {}
    /\ Len(ct_chunks) = 3
    /\ ct_slices = <<<<0, 1000>>, <<800, 1800>>, <<1600, 2600>>>>

(***************************************************************************)
(* VectorStoreManager: re-adding, counting, searching, deleting, looking   *)
(* up and falling back.                                                    *)
(***************************************************************************)
Constructed == st_pc \in {"Ready", "Done"}

Did(op, backend) == st_pc = "Done" /\ st_ret.op = op /\ st_ret.backend = backend

\* C14 (as stated): on the managed backend an add whose ids the collection
\* all holds already (a document ingested again) returns, leaves count()
\* as it was and leaves under each id the record this add wrote.
C14_AsStated ==
    (Did("add", "chroma") /\ st_ret.readd
        /\ ~WrongDimension(collection, st_ret.embeddings)) =>
        /\ ~st_ret.raised
        /\ collection_count(collection) = st_ret.count_before
        /\ \A i \in 1..Len(st_ret.added) :
               /\ st_ret.added[i] \in Stored(collection)
               /\ collection.records[st_ret.added[i]] =
                      [embedding |-> st_ret.embeddings[i],
                       document |-> st_ret.documents[i],
                       metadata |-> st_ret.metadatas[i]]

\* The embeddings passed to the adds that returned on the fallback backend.
RECURSIVE EmbeddingsAdded(_)
EmbeddingsAdded(log) ==
    IF log = <<>> THEN 0
    ELSE (IF Head(log).backend = "faiss" THEN Head(log).n ELSE 0)
         + EmbeddingsAdded(Tail(log))

\* C15: on the fallback backend count() is the number of embeddings passed
\* to all the adds that returned: every add raises it by the number of
\* embeddings it was given, also when it adds ids the store already holds.
C15_CountIsTotalAdded ==
    (Constructed /\ ~use_chroma) =>
        /\ count_faiss(index) = EmbeddingsAdded(adds)
        /\ (Did("count", "faiss") =>
               ~st_ret.raised /\ st_ret.counted = EmbeddingsAdded(adds))
        /\ (Did("add", "faiss") /\ ~st_ret.raised =>
               count_faiss(index) = st_ret.count_before + Len(st_ret.embeddings))

C15_Witness ==
    /\ Did("add", "faiss") /\ ~st_ret.raised /\ st_ret.readd
    /\ Len(st_ret.embeddings) = 2
    /\ st_ret.count_before = 2
    /\ count_faiss(index) = 4
    /\ Cardinality(DOMAIN id_map) = 2

\* C16 (as stated): on the fallback backend a query that returns gives one
\* result list per query vector, also on an empty index; each list holds
\* min(n_results, count()) records, the nearest stored ones by squared
\* Euclidean distance in ascending order, and ids, documents, metadatas and
\* distances agree position by position.
C16_AsStated ==
    (Did("query", "faiss") /\ ~st_ret.raised) =>
        LET qs == st_ret.query_embeddings
            f == st_ret.found
            m == Min(st_ret.n_results, count_faiss(index))
        IN  /\ Len(f.ids) = Len(qs) /\ Len(f.documents) = Len(qs)
            /\ Len(f.metadatas) = Len(qs) /\ Len(f.distances) = Len(qs)
            /\ \A i \in 1..Len(qs) :
                   /\ Len(f.ids[i]) = m
                   /\ \E r \in Ranked(index.xb, qs[i], 0..(count_faiss(index) - 1), m) :
                          /\ f.ids[i] = [j \in 1..m |-> metadata_store[r[j]].id]
                          /\ f.documents[i] = [j \in 1..m |-> metadata_store[r[j]].document]
                          /\ f.metadatas[i] = [j \in 1..m |-> metadata_store[r[j]].metadata]
                          /\ f.distances[i] = [j \in 1..m |-> SqDist(index.xb[r[j] + 1], qs[i])]
                   /\ \A j \in 1..(m - 1) : f.distances[i][j] <= f.distances[i][j + 1]

\* C17 (as stated): a query with a where filter that the fallback backend
\* serves and that returns has printed a warning.
C17_AsStated ==
    (Did("query", "faiss") /\ st_ret.where.some /\ ~st_ret.raised) =>
        Warned(st_ret.printed)

\* The results query can give for an input, on the fallback backend.
QueryResults(ix, ms, inp) ==
    {query_faiss(ix, ms, inp[1], labels) : labels \in index_search(ix, inp[1], inp[2])}

C18_Step ==
    (st_pc = "Ready" /\ st_ret'.op = "delete" /\ st_ret'.backend = "faiss") =>
        /\ ~st_ret'.raised
        /\ Warned(st_ret'.printed)
        /\ UNCHANGED <<index, id_map, metadata_store, dimension, disk_index, disk_meta>>
        /\ count_faiss(index') = count_faiss(index)
        /\ \A ids \in GetIds :
               get_by_ids_faiss(id_map', metadata_store', ids)
                   = get_by_ids_faiss(id_map, metadata_store, ids)
        /\ \A inp \in QueryInputs :
               query_faiss_raises(index, inp[1]) \/
                   QueryResults(index', metadata_store', inp)
                       = QueryResults(index, metadata_store, inp)

\* C18: delete_by_document_id on the fallback backend returns with a warning
\* printed and changes nothing: the index, id_map, metadata_store, dimension
\* and both files are as before, so count(), get_by_ids and query answer as
\* before.
C18_DeleteIsNoOp == [][C18_Step]_vars

C18_Witness ==
    /\ Did("delete", "faiss")
    /\ Warned(st_ret.printed)
    /\ \E k \in DOMAIN id_map :
           /\ Get(metadata_store[id_map[k]].metadata, "document_id", None)
                  = st_ret.document_id
           /\ get_by_ids_faiss(id_map, metadata_store, <<k>>).ids = <<k>>
    /\ disk_index = IndexFile(index)

\* The records written by the adds that returned on the fallback backend,
\* oldest first.
RECURSIVE RecordsAdded(_)
RecordsAdded(log) ==
    IF log = <<>> THEN <<>>
    ELSE (IF Head(log).backend = "faiss" THEN Head(log).records ELSE <<>>)
         \o RecordsAdded(Tail(log))

LastAdded(recs, id) == recs[SetMax({i \in 1..Len(recs) : recs[i].id = id})]

\* C19: get_by_ids on the fallback backend returns, whatever the ids: its
\* result holds, in the order requested, for each requested id that some
\* add wrote the record the latest such add wrote, and nothing for the
\* other ids.
C19_GetByIdsLatest ==
    Did("get", "faiss") =>
        LET recs == RecordsAdded(adds)
            hit == SelectSeq(st_ret.get_ids,
                             LAMBDA k : \E i \in 1..Len(recs) : recs[i].id = k)
        IN  /\ ~st_ret.raised
            /\ st_ret.got.ids = hit
            /\ st_ret.got.documents =
                   [j \in 1..Len(hit) |-> LastAdded(recs, hit[j]).document]
            /\ st_ret.got.metadatas =
                   [j \in 1..Len(hit) |-> LastAdded(recs, hit[j]).metadata]

C19_Witness ==
    /\ Did("get", "faiss")
    /\ st_ret.get_ids = <<<<"d", "_", "1">>, <<"z">>, <<"d", "_", "1">>>>
    /\ st_ret.got.ids = <<<<"d", "_", "1">>, <<"d", "_", "1">>>>
    /\ st_ret.got.documents = <<<<"y">>, <<"y">>>>
    /\ \E i \in 1..Len(RecordsAdded(adds)) :
           /\ RecordsAdded(adds)[i].id = <<"d", "_", "1">>
           /\ RecordsAdded(adds)[i].document = <<"x">>

C20_State ==
    (Constructed /\ chroma_failed) =>
        /\ ~use_chroma
        /\ faiss_ready
        /\ st_pc = "Done" => st_ret.backend = "faiss"

C20_Step == (Constructed /\ Constructed') => use_chroma' = use_chroma

\* C20: when the managed backend fails to initialize, the constructed store
\* has use_chroma false and the fallback attributes set, every call on it
\* is served by the fallback backend, and use_chroma never changes once the
\* store is constructed.
C20_FallbackOnFailure == []C20_State /\ [][C20_Step]_vars

C20_Witness ==
    /\ chroma_failed
    /\ Did("get", "faiss") /\ ~st_ret.raised
    /\ st_ret.got.ids # <<>>
    /\ Len(adds) = 2 /\ adds[1].backend = "chroma" /\ adds[2].backend = "faiss"

(***************************************************************************)
(* chunk_text: progress of the cursor.                                     *)
(***************************************************************************)
\* The values start has taken at the head of the loop, in order, followed
\* by its present value once the loop has been entered.
Cursor ==
    [i \in 1..Len(ct_slices) |-> ct_slices[i][1]]
        \o (IF ct_pc \in {"Loop", "Done"} THEN <<ct_start>> ELSE <<>>)

\* C25 (as stated): with chunk_size > overlap >= 0 the cursor start of
\* chunk_text is never negative and is strictly greater after every loop
\* iteration than before it (so that the loop ends).
C25_AsStated ==
    /\ \A i \in 1..Len(Cursor) : Cursor[i] >= 0
    /\ \A i \in 1..(Len(Cursor) - 1) : Cursor[i + 1] > Cursor[i]

(***************************************************************************)
(* The fallback backend's files.                                           *)
(***************************************************************************)
\* A fallback store is constructed.
OnFallback == Constructed /\ ~use_chroma /\ faiss_ready

\* What a fallback store constructed now on the same directory and
\* collection name would hold.
Reloaded == initialize_faiss(disk_index, disk_meta)

\* The outcomes of query, raising or the results it can give (a function of
\* the index and the records only: equal ones give equal outcomes).
QueryOutcomes(ix, ms, inp) ==
    IF query_faiss_raises(ix, inp[1]) THEN {"raises"}
    ELSE QueryResults(ix, ms, inp)

C21_State ==
    OnFallback =>
        /\ count_faiss(Reloaded.index) = count_faiss(index)
        /\ Reloaded.id_map = id_map
        /\ Reloaded.metadata_store = metadata_store
        /\ Reloaded.dimension = dimension
        /\ \/ Reloaded.index = index /\ Reloaded.metadata_store = metadata_store
           \/ \A inp \in QueryInputs :
                  QueryOutcomes(Reloaded.index, Reloaded.metadata_store, inp)
                      = QueryOutcomes(index, metadata_store, inp)
        /\ \A ids \in GetIds :
               get_by_ids_faiss(Reloaded.id_map, Reloaded.metadata_store, ids)
                   = get_by_ids_faiss(id_map, metadata_store, ids)

C21_Step ==
    /\ (st_pc = "Ready" /\ st_ret'.op = "add" /\ st_ret'.backend = "faiss"
            /\ ~st_ret'.raised) =>
           /\ disk_index' # disk_index /\ disk_meta' # disk_meta
           /\ disk_index' = IndexFile(index')
           /\ disk_meta' = MetadataFile(id_map', metadata_store', dimension')
    /\ (st_pc = "New" /\ st_ret'.op = "init" /\ st_ret'.backend = "faiss") =>
           /\ index' = Reloaded.index
           /\ id_map' = Reloaded.id_map
           /\ metadata_store' = Reloaded.metadata_store
           /\ dimension' = Reloaded.dimension

\* C21: at every moment of a fallback store's life, a fallback store
\* constructed on the same directory and collection name would hold the
\* same count, id_map, metadata_store and dimension, and give the same
\* outcomes of query and get_by_ids; every add that returns rewrites both
\* files with the store's new state, and a construction on the fallback
\* backend takes over exactly what the files hold.
C21_PersistenceRoundTrips == []C21_State /\ [][C21_Step]_vars

\* A fallback store constructed over the files that two adds of an earlier
\* store left, holding three vectors and two ids.
C21_Witness ==
    /\ Did("init", "faiss")
    /\ Len(adds) = 2 /\ \A i \in 1..2 : adds[i].backend = "faiss"
    /\ count_faiss(index) = 3
    /\ Cardinality(DOMAIN id_map) = 2
    /\ dimension = 1

(***************************************************************************)
(* The fallback backend's slots.                                           *)
(***************************************************************************)
\* The slots of the index.
Slots == 0..(count_faiss(index) - 1)

\* The labels of one query that name a slot (the padding left out).
Reported(labels) == SelectSeq(labels, LAMBDA c : c >= 0)

\* C26: on a fallback store, whose adds were all given lists of equal
\* lengths, metadata_store holds a record for exactly the slots
\* 0..count()-1; every id of id_map maps to a slot below count(), the
\* highest slot whose record carries that id; and a query that returns from
\* a non-empty index gives, for each query vector, the id, document and
\* metadata that metadata_store holds at each slot the index reported, in
\* the order reported and none left out.
C26_SlotsConsistent ==
    OnFallback =>
        /\ DOMAIN metadata_store = Slots
        /\ \A k \in DOMAIN id_map :
               /\ id_map[k] \in Slots
               /\ metadata_store[id_map[k]].id = k
               /\ id_map[k] = SetMax({s \in Slots : metadata_store[s].id = k})
        /\ (Did("query", "faiss") /\ ~st_ret.raised /\ count_faiss(index) > 0) =>
               \E labels \in index_search(index, st_ret.query_embeddings,
                                          st_ret.n_results) :
                   \A i \in 1..Len(st_ret.query_embeddings) :
                       LET slots == Reported(labels[i])
                       IN  /\ Len(slots) = Min(st_ret.n_results, count_faiss(index))
                           /\ st_ret.found.ids[i] =
                                  [j \in 1..Len(slots) |-> metadata_store[slots[j]].id]
                           /\ st_ret.found.documents[i] =
                                  [j \in 1..Len(slots) |->
                                      metadata_store[slots[j]].document]
                           /\ st_ret.found.metadatas[i] =
                                  [j \in 1..Len(slots) |->
                                      metadata_store[slots[j]].metadata]

\* A query for three neighbours on a store of two adds and three slots, one
\* id having been written twice.
C26_Witness ==
    /\ Did("query", "faiss") /\ ~st_ret.raised
    /\ st_ret.n_results = 3
    /\ count_faiss(index) = 3
    /\ Cardinality(DOMAIN id_map) = 2
    /\ Len(st_ret.found.ids[1]) = 3
    /\ Len(adds) = 2

(***************************************************************************)
(* Concurrent ingestions.                                                  *)
(***************************************************************************)
\* The persisted files hold the record r.
Persisted(r) ==
    /\ disk_index.exists /\ disk_meta.exists
    /\ r.id \in DOMAIN disk_meta.id_map
    /\ \E s \in DOMAIN disk_meta.metadata_store :
           /\ disk_meta.metadata_store[s] = r
           /\ s < ntotal(disk_index.index)

\* C22 (as stated): with every add+persist sequence under the callers'
\* mutex and every ingestion on its own VectorStoreManager, once all the
\* ingestions have completed the persisted files hold every record of
\* every add that returned.
C22_AsStated ==
    (serialized /\ \A i \in Ingestions : ig_pc[i] = "Done") =>
        \A k \in 1..Len(RecordsAdded(adds)) : Persisted(RecordsAdded(adds)[k])

(***************************************************************************)
(* The HTTP boundary.                                                      *)
(***************************************************************************)
Answered(kind) == api_pc = "Responded" /\ api_request.kind = kind

\* The value process_pdf returned under key.
Produced(key) ==
    api_call.value[CHOOSE i \in 1..Len(api_call.value) : api_call.value[i][1] = key][2]

\* C23 (as stated): an upload whose filename ends in .pdf and whose
\* process_pdf call returns is answered with a success response that
\* carries the document_id, session_id and num_chunks process_pdf produced;
\* a filename not ending in .pdf is answered 400; 500 is answered only when
\* process_pdf raised.
C23_AsStated ==
    Answered("upload") =>
        /\ ~EndsWith(api_request.filename, DotPdf) <=> api_response.status = 400
        /\ (api_call.called /\ ~api_call.raised) =>
               /\ api_response.status = 200
               /\ api_response.body.document_id = Produced("document_id")
               /\ api_response.body.session_id = Produced("session_id")
               /\ api_response.body.num_chunks = Produced("num_chunks")
        /\ api_response.status = 500 => api_call.raised

C24_State ==
    /\ Answered("chat") =>
           /\ api_response.status \in {200, 400, 500, 503}
           /\ api_response.status = 503 <=> chat_orchestrator = None
           /\ api_response.status = 400 <=>
                  (api_call.called /\ ~api_call.raised /\ ~api_call.value.success)
           /\ api_response.status = 500 <=> api_call.raised
           /\ api_response.status = 200 <=>
                  (api_call.called /\ ~api_call.raised /\ api_call.value.success)
           /\ api_response.status = 200 =>
                  /\ api_response.body.response = api_call.value.response
                  /\ api_response.body.num_chunks_retrieved = Len(api_call.value.chunks)
    /\ (chat_orchestrator = None /\ api_pc # "Starting") => pc = "Idle"

\* A chat request in flight ends in a response, and in nothing else.
C24_Step ==
    (api_pc = "InChat" /\ api_pc' # "InChat") =>
        /\ api_pc' = "Responded"
        /\ api_response'.status \in {200, 400, 500}

\* C24: the chat handler answers 503 exactly when the orchestrator was not
\* built at startup (process_chat is then never entered), 400 exactly when
\* process_chat returned a result without success, 500 exactly when an
\* exception that is no HTTPException was raised while handling, and 200
\* with the result's response otherwise; every request in flight ends in
\* one of these answers, and the 400 of a rejected query stays a 400.
C24_ChatStatusCodes == []C24_State /\ [][C24_Step]_vars

\* Each of the four answers is given.
C24_Witness ==
    /\ Answered("chat") /\ api_response.status = 400
    /\ api_call.called /\ ~api_call.value.success
    /\ chat_orchestrator # None

C24_Reached503 == Answered("chat") /\ api_response.status = 503
C24_Reached500 == Answered("chat") /\ api_response.status = 500
C24_Reached200 ==
    /\ Answered("chat") /\ api_response.status = 200
    /\ api_response.body.sources = Some(<<<<"s">>, Unknown>>)

====
